---- MODULE Spec2Model ----
(***************************************************************************)
(* A model of DocChatAgent (langroid/agent/special/doc_chat_agent.py):     *)
(* the retrieval-and-reranking pipeline, the chunk corpus, the verbatim    *)
(* extractor and the answer synthesizer.                                   *)
(*                                                                         *)
(* Text is a sequence of tokens (characters for LLM responses, words for   *)
(* chunk contents).  A Document is a record                                *)
(*   [content, metadata |-> [id, source, window_ids], fields, title]       *)
(* where fields is the pydantic __fields__ set of the document's class and *)
(* title is the value of the one extra field a subclass may carry.         *)
(***************************************************************************)
EXTENDS Integers, Sequences, FiniteSets, TLC

VARIABLES
    vecdb,               \* self.vecdb: [isNone, docs, collection_name, upsert]
    llm,                 \* self.llm:   [isNone, stream]
    parser,              \* self.parser: [isNone]
    config,              \* self.config (DocChatAgentConfig)
    original_docs,       \* self.original_docs
    original_docs_length,\* self.original_docs_length
    chunked_docs,        \* self.chunked_docs
    chunked_docs_clean,  \* self.chunked_docs_clean
    dialog,              \* self.dialog
    response,            \* self.response: [isNone, content, source]
    op,                  \* the method last called ("" before any call)
    args,                \* its arguments and the collaborators' answers
    ret,                 \* what it returned (or raised)
    calls                \* the collaborators it invoked, in order

vars == <<vecdb, llm, parser, config, original_docs, original_docs_length,
          chunked_docs, chunked_docs_clean, dialog, response,
          op, args, ret, calls>>

agent == <<vecdb, llm, parser, config, original_docs, original_docs_length,
           chunked_docs, chunked_docs_clean, dialog, response>>

----------------------------------------------------------------------------
(* Sequences *)

SeqsUpTo(S, n) == UNION {[1..k -> S] : k \in 0..n}

Reverse(s) == [k \in 1..Len(s) |-> s[Len(s) + 1 - k]]

\* s[start::2] of Python, start 0-based
EveryOther(s, start) ==
    [k \in 1..((IF Len(s) >= start THEN Len(s) - start + 1 ELSE 0) \div 2)
        |-> s[start + 2 * (k - 1) + 1]]

Count(x, s) == Cardinality({k \in 1..Len(s) : s[k] = x})

SameMultiset(s, t) ==
    /\ Len(s) = Len(t)
    /\ \A k \in 1..Len(s) : Count(s[k], s) = Count(s[k], t)

----------------------------------------------------------------------------
(* Documents *)

BaseFields == {"content", "metadata"}

Doc(id, content, source) ==
    [content |-> content,
     metadata |-> [id |-> id, source |-> source, window_ids |-> <<id>>],
     fields |-> BaseFields, title |-> ""]

\* a Document subclass with one further field
TitledDoc(id, content, source, title) ==
    [Doc(id, content, source) EXCEPT
        !.fields = BaseFields \cup {"title"}, !.title = title]

\* a chunk that knows the ids of the chunks around it
WindowDoc(id, content, source, window_ids) ==
    [Doc(id, content, source) EXCEPT !.metadata.window_ids = window_ids]

\* Document.id()
DocId(d) == d.metadata.id

NO_ANSWER == <<"DO-NOT-KNOW">>

----------------------------------------------------------------------------
(* Configuration and the agent after construction *)

n_similar_docs == 3

DefaultConfig ==
    [filter |-> "None",
     n_neighbor_chunks |-> 0,
     n_fuzzy_neighbor_words |-> 100,
     use_fuzzy_match |-> TRUE,
     use_bm25_search |-> TRUE,
     cross_encoder_reranking_model |-> "",
     rerank_diversity |-> TRUE,
     rerank_periphery |-> TRUE,
     hypothetical_answer |-> FALSE,
     n_query_rephrases |-> 0,
     assistant_mode |-> FALSE,
     retrieve_only |-> FALSE,
     conversation_mode |-> TRUE,
     stream |-> TRUE,
     llm |-> [stream |-> TRUE],
     extraction_granularity |-> 1,
     \* llm: "None", "own" (a config of its own) or "parent" (config.llm)
     relevance_extractor_config |->
        [isNone |-> FALSE, llm |-> "None", llm_stream |-> TRUE,
         query |-> <<>>, segment_length |-> 1],
     \* parsing: chunk_size, max_chunks, n_similar_docs
     chunk_size |-> 1000,
     max_chunks |-> 10000,
     n_similar_docs |-> n_similar_docs]

NoResponse == [isNone |-> TRUE, content |-> <<>>, source |-> <<>>]

\* the collaborators the agent is built with (None when not configured)
\* docs: the collection's documents; upsert: whether the store replaces a
\* stored document when one with the same id is added
VecDB(none) ==
    [isNone |-> none, docs |-> <<>>, collection_name |-> "doc-chat-lancedb",
     upsert |-> TRUE]

LLM(none) == [isNone |-> none, stream |-> TRUE]

Parser(none) == [isNone |-> none]

\* DocChatAgent.__init__ with no doc_paths
InitAgentWith(db, lm, pr, cfg) ==
    /\ vecdb = db
    /\ llm = lm
    /\ parser = pr
    /\ config = cfg
    /\ original_docs = <<>>
    /\ original_docs_length = 0
    /\ chunked_docs = <<>>
    /\ chunked_docs_clean = <<>>
    /\ dialog = <<>>
    /\ response = NoResponse

InitAgent == InitAgentWith(VecDB(FALSE), LLM(FALSE), Parser(FALSE), DefaultConfig)

\* what a call gives back: a value, or the exception it raised
Ok(v) == [raised |-> "", value |-> v]

Raise(e) == [raised |-> e, value |-> <<>>]

\* an invocation of a collaborator or of a stage: its name, and the query
\* and the number of hits asked for where it has them
Call(fn, q, k) == [fn |-> fn, q |-> q, k |-> k]

C(fn) == Call(fn, <<>>, 0)

NoCall ==
    /\ op = ""
    /\ ret = Ok(<<>>)
    /\ calls = <<>>

----------------------------------------------------------------------------
(* rerank_to_periphery *)

MaxPeriphery == 5

PeripheryItems == {Doc("1", <<"a">>, "s"), Doc("2", <<"b">>, "s"),
                   Doc("3", <<"c">>, "s")}

\* the docstring's example: 1 2 3 4 5 6 7 8 9
Nine == [k \in 1..9 |-> Doc(ToString(k), <<"a">>, "s")]

rerank_to_periphery_unreversed(passages) ==
    EveryOther(passages, 0) \o EveryOther(passages, 1)

rerank_to_periphery(passages) ==
    LET odds == EveryOther(passages, 0)
        evens == Reverse(EveryOther(passages, 1))
    IN  odds \o evens

InitPeriphery ==
    /\ InitAgent
    /\ NoCall
    /\ args \in {[passages |-> p] :
                    p \in SeqsUpTo(PeripheryItems, MaxPeriphery) \cup {Nine}}

CallRerankToPeriphery ==
    /\ op = ""
    /\ op' = "rerank_to_periphery"
    /\ ret' = Ok(rerank_to_periphery(args.passages))
    /\ UNCHANGED <<agent, args, calls>>

NextPeriphery == CallRerankToPeriphery

SpecPeriphery == InitPeriphery /\ [][NextPeriphery]_vars

\* C4: rerank_to_periphery is a bijection on its input list (same length,
\* every input element exactly once): the elements at 0-based positions
\* 0,2,4,... in their original order, then the elements at positions
\* 1,3,5,... in reverse order; 1..9 becomes 1 3 5 7 9 8 6 4 2.
PeripheryOrder ==
    op = "rerank_to_periphery" =>
        LET inp == args.passages
            out == ret.value
            n == Len(inp)
            h == (n + 1) \div 2
        IN  /\ ret.raised = ""
            /\ Len(out) = n
            /\ SameMultiset(inp, out)
            /\ \A k \in 1..h : out[k] = inp[2 * k - 1]
            /\ \A k \in 1..(n - h) : out[n + 1 - k] = inp[2 * k]
            /\ inp = Nine =>
                 [k \in 1..9 |-> DocId(out[k])] =
                    <<"1", "3", "5", "7", "9", "8", "6", "4", "2">>

PeripheryWitness ==
    /\ op = "rerank_to_periphery"
    /\ args.passages = Nine
    /\ DocId(ret.value[6]) = "8"

----------------------------------------------------------------------------
(* rerank_with_diversity *)

MaxDiversity == 3

DiversityItems == {Doc("1", <<"a">>, "s"), Doc("2", <<"b">>, "s"),
                   Doc("3", <<"c">>, "s")}

\* the vectors the embedding function may give: every norm is an integer,
\* so the cosine is an exact rational; the zero vector makes it NaN
EmbVals == {<<5, 0>>, <<0, 5>>, <<3, 4>>, <<-5, 0>>, <<0, 0>>}

\* a float: NaN, or the rational num/den with den > 0
NaN == [nan |-> TRUE, num |-> 0, den |-> 1]

Rat(n, d) == [nan |-> FALSE, num |-> n, den |-> d]

RatAdd(x, y) ==
    IF x.nan \/ y.nan THEN NaN
    ELSE Rat(x.num * y.den + y.num * x.den, x.den * y.den)

RatDivInt(x, n) == IF x.nan THEN NaN ELSE Rat(x.num, x.den * n)

\* x < y on floats: False whenever either side is NaN
RatLess(x, y) == ~x.nan /\ ~y.nan /\ x.num * y.den < y.num * x.den

Dot(a, b) == a[1] * b[1] + a[2] * b[2]

\* np.linalg.norm
Norm(a) == CHOOSE r \in 0..Dot(a, a) : r * r = Dot(a, a)

\* (embs_arr[i] @ embs_arr[j]) / (norm(embs_arr[i]) * norm(embs_arr[j]))
Cosine(a, b) ==
    IF Norm(a) * Norm(b) = 0 THEN NaN ELSE Rat(Dot(a, b), Norm(a) * Norm(b))

RECURSIVE SumCosine(_, _, _, _)
SumCosine(i, result, embs, k) ==
    IF k > Len(result) THEN Rat(0, 1)
    ELSE RatAdd(Cosine(embs[i], embs[result[k]]),
                SumCosine(i, result, embs, k + 1))

avg_similarity_to_result(i, result, embs) ==
    RatDivInt(SumCosine(i, result, embs, 1), Len(result))

\* Python's min(indices, key=...): the first item no later item is less than
RECURSIVE MinPos(_, _, _)
MinPos(keys, k, best) ==
    IF k > Len(keys) THEN best
    ELSE MinPos(keys, k + 1, IF RatLess(keys[k], keys[best]) THEN k ELSE best)

\* list.remove(x)
Remove(s, x) ==
    LET p == CHOOSE k \in 1..Len(s) :
                 s[k] = x /\ \A j \in 1..(k - 1) : s[j] # x
    IN  [k \in 1..(Len(s) - 1) |-> IF k < p THEN s[k] ELSE s[k + 1]]

\* the first of the remaining items, whatever the similarities
first_remaining_item(indices, result, embs) == indices[1]

least_similar_item(indices, result, embs) ==
    LET keys == [k \in 1..Len(indices) |->
                    avg_similarity_to_result(indices[k], result, embs)]
    IN  indices[MinPos(keys, 2, 1)]

\* the while loop of rerank_with_diversity
RECURSIVE DiversityLoop(_, _, _)
DiversityLoop(indices, result, embs) ==
    IF indices = <<>> THEN result
    ELSE LET item == least_similar_item(indices, result, embs)
         IN  DiversityLoop(Remove(indices, item), Append(result, item), embs)

diversity_seed_last(indices) == <<indices[Len(indices)]>>

\* result = [indices.pop(0)]
diversity_seed(indices) == <<indices[1]>>

\* what indices.pop(0) leaves in indices
diversity_rest(indices, seed) == Remove(indices, seed[1])

\* embs: what the embedding function gives for the passages' contents
rerank_with_diversity(db, passages, embs) ==
    IF db.isNone THEN Ok(passages)
    ELSE IF Len(passages) = 0 THEN Raise("IndexError")
    ELSE LET indices == [k \in 1..Len(passages) |-> k]
             seed == diversity_seed(indices)
             result == DiversityLoop(diversity_rest(indices, seed), seed, embs)
         IN  Ok([k \in 1..Len(result) |-> passages[result[k]]])

InitDiversity ==
    /\ \E none \in BOOLEAN :
          InitAgentWith(VecDB(none), LLM(FALSE), Parser(FALSE), DefaultConfig)
    /\ NoCall
    /\ args \in UNION {[passages : [1..n -> DiversityItems],
                        embs : [1..n -> EmbVals]] : n \in 0..MaxDiversity}

CallRerankWithDiversity ==
    /\ op = ""
    /\ op' = "rerank_with_diversity"
    /\ ret' = rerank_with_diversity(vecdb, args.passages, args.embs)
    /\ calls' = IF vecdb.isNone THEN <<>> ELSE <<C("embedding_fn")>>
    /\ UNCHANGED <<agent, args>>

NextDiversity == CallRerankWithDiversity

SpecDiversity == InitDiversity /\ [][NextDiversity]_vars

\* C5: for every non-empty passage list and any embedding values,
\* rerank_with_diversity returns a permutation of its input (same multiset,
\* same length) whose first element is the input's first element.
DiversityPermutation ==
    (op = "rerank_with_diversity" /\ Len(args.passages) > 0) =>
        /\ ret.raised = ""
        /\ SameMultiset(args.passages, ret.value)
        /\ ret.value[1] = args.passages[1]

\* three distinct passages, reordered by the greedy selection
DiversityWitness ==
    /\ op = "rerank_with_diversity"
    /\ ~vecdb.isNone
    /\ Len(args.passages) = 3
    /\ ret.value # args.passages
    /\ ret.value[1] = args.passages[1]
    /\ ret.value[2] = args.passages[3]
    /\ args.passages[2] # args.passages[3]

----------------------------------------------------------------------------
(* get_summary_answer: the answer synthesizer and its parsing of the LLM's  *)
(* response.  Here text is a sequence of characters.                        *)

MaxPieces == 4

SOURCE == <<"S", "O", "U", "R", "C", "E">>

SOURCE_COLON == SOURCE \o <<":">>

SOURCE_PREFIX == SOURCE_COLON \o <<" ">>

Whitespace == {" ", "\n"}

\* "The answer is X.\nSOURCE: doc1.pdf"
ExampleContent ==
    <<"T", "h", "e", " ", "a", "n", "s", "w", "e", "r", " ", "i", "s", " ",
      "X", ".">>

ExampleSource == <<"d", "o", "c", "1", ".", "p", "d", "f">>

ExampleResponse == ExampleContent \o <<"\n">> \o SOURCE_PREFIX \o ExampleSource

Pieces == {SOURCE_COLON, SOURCE, <<" ">>, <<"a">>, <<":">>}

RECURSIVE Concat(_)
Concat(ps) == IF ps = <<>> THEN <<>> ELSE Head(ps) \o Concat(Tail(ps))

Responses == {Concat(ps) : ps \in SeqsUpTo(Pieces, MaxPieces)}
                 \cup {ExampleResponse}

\* str.lstrip, str.rstrip, str.strip
RECURSIVE LStrip(_)
LStrip(s) ==
    IF s # <<>> /\ Head(s) \in Whitespace THEN LStrip(Tail(s)) ELSE s

Strip(s) == Reverse(LStrip(Reverse(LStrip(s))))

\* str.startswith
StartsWith(s, p) == Len(s) >= Len(p) /\ SubSeq(s, 1, Len(p)) = p

\* str.find, 1-based, scanning from position k; 0 when sub does not occur
RECURSIVE FindFrom(_, _, _)
FindFrom(s, sub, k) ==
    IF k + Len(sub) - 1 > Len(s) THEN 0
    ELSE IF SubSeq(s, k, k + Len(sub) - 1) = sub THEN k
    ELSE FindFrom(s, sub, k + 1)

\* the last occurrence, as str.rsplit would cut
RECURSIVE FindBack(_, _, _)
FindBack(s, sub, k) ==
    IF k < 1 THEN 0
    ELSE IF SubSeq(s, k, k + Len(sub) - 1) = sub THEN k
    ELSE FindBack(s, sub, k - 1)

SplitOnceLast(s, sep) ==
    LET p == FindBack(s, sep, Len(s) - Len(sep) + 1)
    IN  IF p = 0 THEN <<s>>
        ELSE <<SubSeq(s, 1, p - 1), SubSeq(s, p + Len(sep), Len(s))>>

\* s.split(sep, maxsplit=1)
SplitOnce(s, sep) ==
    LET p == FindFrom(s, sep, 1)
    IN  IF p = 0 THEN <<s>>
        ELSE <<SubSeq(s, 1, p - 1), SubSeq(s, p + Len(sep), Len(s))>>

\* the content and the sources get_summary_answer takes from the response
ParseAnswer(answer) ==
    LET final_answer == Strip(answer)
        parts == SplitOnce(final_answer, SOURCE_COLON)
    IN  IF StartsWith(final_answer, SOURCE)
        THEN [content |-> final_answer, sources |-> final_answer]
        ELSE IF Len(parts) > 1
        THEN [content |-> Strip(parts[1]), sources |-> Strip(parts[2])]
        ELSE [content |-> final_answer, sources |-> <<>>]

\* answer: the content of the LLM's response to the final prompt
get_summary_answer(cfg, answer) ==
    LET parsed == ParseAnswer(answer)
    IN  [content |-> parsed.content,
         source |-> SOURCE_PREFIX \o parsed.sources,
         calls |-> IF cfg.conversation_mode
                   THEN <<C("_llm_response_temp_context")>>
                   ELSE <<C("llm_response_forget")>>]

InitSummary ==
    /\ \E b \in BOOLEAN :
          InitAgentWith(VecDB(FALSE), LLM(FALSE), Parser(FALSE),
                        [DefaultConfig EXCEPT !.conversation_mode = b])
    /\ NoCall
    /\ args \in [answer : Responses]

CallGetSummaryAnswer ==
    /\ op = ""
    /\ op' = "get_summary_answer"
    /\ LET r == get_summary_answer(config, args.answer)
       IN  /\ ret' = Ok([content |-> r.content, source |-> r.source])
           /\ calls' = r.calls
    /\ UNCHANGED <<agent, args>>

NextSummary == CallGetSummaryAnswer

SpecSummary == InitSummary /\ [][NextSummary]_vars

\* the marker SOURCE: occurs in s at position p and nowhere before p
FirstMarkerAt(s, p) ==
    /\ p \in 1..Len(s)
    /\ p + Len(SOURCE_COLON) - 1 <= Len(s)
    /\ SubSeq(s, p, p + Len(SOURCE_COLON) - 1) = SOURCE_COLON
    /\ \A q \in 1..(p - 1) :
          SubSeq(s, q, q + Len(SOURCE_COLON) - 1) # SOURCE_COLON

\* no white space at either end
Trimmed(s) ==
    s # <<>> => (s[1] \notin Whitespace /\ s[Len(s)] \notin Whitespace)

Before(s, p) == SubSeq(s, 1, p - 1)

After(s, p) == SubSeq(s, p + Len(SOURCE_COLON), Len(s))

\* t is s without its leading and trailing white space
IsTrimOf(t, s) ==
    /\ Trimmed(t)
    /\ \E a \in 0..Len(s) :
          /\ a + Len(t) <= Len(s)
          /\ t = SubSeq(s, a + 1, a + Len(t))
          /\ \A k \in (1..a) \cup ((a + Len(t) + 1)..Len(s)) :
                s[k] \in Whitespace

\* C3: for an LLM response that, once trimmed, does not begin with SOURCE
\* and that contains SOURCE:, get_summary_answer returns as content the
\* trimmed text before the first SOURCE: and as source "SOURCE: " followed
\* by the trimmed text after it; for "The answer is X.\nSOURCE: doc1.pdf"
\* the content is "The answer is X." and the source "SOURCE: doc1.pdf".
SummarySplit ==
    op = "get_summary_answer" =>
        /\ ret.raised = ""
        /\ \A p \in 1..Len(args.answer) :
              (FirstMarkerAt(args.answer, p)
                 /\ ~StartsWith(Strip(args.answer), SOURCE)) =>
                  /\ IsTrimOf(ret.value.content, Before(args.answer, p))
                  /\ StartsWith(ret.value.source, SOURCE_PREFIX)
                  /\ IsTrimOf(SubSeq(ret.value.source,
                                     Len(SOURCE_PREFIX) + 1,
                                     Len(ret.value.source)),
                              After(args.answer, p))
        /\ args.answer = ExampleResponse =>
              /\ ret.value.content = ExampleContent
              /\ ret.value.source = SOURCE_PREFIX \o ExampleSource

SummarySplitWitness ==
    /\ op = "get_summary_answer"
    /\ args.answer = ExampleResponse
    /\ ret.value.content = ExampleContent
    /\ ret.value.source = SOURCE_PREFIX \o ExampleSource

\* C3 as stated: the response itself does not begin with SOURCE, and the
\* source is the trimmed text after the marker, "doc1.pdf" in the example
SummarySplitAsStated ==
    op = "get_summary_answer" =>
        /\ \A p \in 1..Len(args.answer) :
              (FirstMarkerAt(args.answer, p)
                 /\ ~StartsWith(args.answer, SOURCE)) =>
                  /\ IsTrimOf(ret.value.content, Before(args.answer, p))
                  /\ IsTrimOf(ret.value.source, After(args.answer, p))
        /\ args.answer = ExampleResponse =>
              /\ ret.value.content = ExampleContent
              /\ ret.value.source = ExampleSource

----------------------------------------------------------------------------
(* add_context_window *)

MaxNeighbors == 1

MaxBatch == 2

\* three consecutive chunks of one document, as stored in the vector store
W1 == WindowDoc("w1", <<"one", "uno">>, "s", <<"w1", "w2", "w3">>)

W2 == WindowDoc("w2", <<"two", "dos">>, "s", <<"w1", "w2", "w3">>)

W3 == WindowDoc("w3", <<"three", "tres">>, "s", <<"w1", "w2", "w3">>)

\* a chunk of a Document subclass with a further field
WT == [W2 EXCEPT !.fields = BaseFields \cup {"title"}, !.title = "t"]

StoredChunks == <<W1, W2, W3>>

Scores == {0, 1}

Position(s, x) ==
    IF \E k \in 1..Len(s) : s[k] = x
    THEN CHOOSE k \in 1..Len(s) : s[k] = x /\ \A j \in 1..(k - 1) : s[j] # x
    ELSE 0

Max(a, b) == IF a > b THEN a ELSE b

Min(a, b) == IF a < b THEN a ELSE b

\* the contents of the stored chunks with the given ids, joined in order
RECURSIVE JoinContents(_, _)
JoinContents(stored, ids) ==
    IF ids = <<>> THEN <<>>
    ELSE LET p == Position([k \in 1..Len(stored) |-> DocId(stored[k])], Head(ids))
         IN  (IF p = 0 THEN <<>> ELSE stored[p].content)
                \o JoinContents(stored, Tail(ids))

\* VectorStore.add_context_window: each document's content becomes the
\* concatenation of up to n neighbours on each side plus itself, in
\* document order; the score is unchanged
vecdb_add_context_window(db, docs_scores, n) ==
    [k \in 1..Len(docs_scores) |->
        LET d == docs_scores[k][1]
            w == d.metadata.window_ids
            p == Position(w, DocId(d))
        IN  IF p = 0 THEN docs_scores[k]
            ELSE <<[d EXCEPT !.content =
                        JoinContents(db.docs,
                                     SubSeq(w, Max(1, p - n), Min(Len(w), p + n)))],
                   docs_scores[k][2]>>]

\* set(docs_scores[0][0].__fields__) != {"content", "metadata"}
has_other_fields(docs_scores) == docs_scores[1][1].fields # BaseFields

\* self.vecdb is None, the number of neighbours not looked at
no_window_wanted_vecdb_only(db, cfg) == db.isNone

\* self.vecdb is None or self.config.n_neighbor_chunks == 0
no_window_wanted(db, cfg) == db.isNone \/ cfg.n_neighbor_chunks = 0

add_context_window(db, cfg, docs_scores) ==
    IF no_window_wanted(db, cfg)
    THEN [value |-> docs_scores, calls |-> <<>>]
    ELSE IF Len(docs_scores) = 0
    THEN [value |-> <<>>, calls |-> <<>>]
    ELSE IF has_other_fields(docs_scores)
    THEN [value |-> docs_scores, calls |-> <<>>]
    ELSE [value |-> vecdb_add_context_window(db, docs_scores,
                                             cfg.n_neighbor_chunks),
          calls |-> <<C("vecdb.add_context_window")>>]

InitWindow ==
    /\ \E db \in {VecDB(TRUE), [VecDB(FALSE) EXCEPT !.docs = StoredChunks]},
          n \in 0..MaxNeighbors :
          InitAgentWith(db, LLM(FALSE), Parser(FALSE),
                        [DefaultConfig EXCEPT !.n_neighbor_chunks = n])
    /\ NoCall
    /\ args \in [docs_scores : SeqsUpTo({W1, W2, W3, WT} \X Scores, MaxBatch)]

CallAddContextWindow ==
    /\ op = ""
    /\ op' = "add_context_window"
    /\ LET r == add_context_window(vecdb, config, args.docs_scores)
       IN  /\ ret' = Ok(r.value)
           /\ calls' = r.calls
    /\ UNCHANGED <<agent, args>>

NextWindow == CallAddContextWindow

SpecWindow == InitWindow /\ [][NextWindow]_vars

\* C7: add_context_window expands only when every document of the batch has
\* exactly the fields {content, metadata}; whenever any passage of the batch,
\* in any position, carries a further field, the input list is returned
\* unchanged and the vector store's add_context_window is not called.
WindowSkippedOnOtherFields ==
    (op = "add_context_window"
       /\ \E k \in 1..Len(args.docs_scores) :
             args.docs_scores[k][1].fields # BaseFields) =>
        /\ ret.value = args.docs_scores
        /\ calls = <<>>

----------------------------------------------------------------------------
(* get_verbatim_extracts *)

MaxExtract == 2

ExtractItems == {Doc("1", <<"a", "b">>, "s1"), Doc("2", <<"c">>, "s2"),
                 TitledDoc("3", <<"a", "b">>, "s1", "t")}

None == [isNone |-> TRUE, content |-> <<>>, failed |-> FALSE]

\* how the extraction task of one passage ends: it fails, or it gives None,
\* or a ChatDocument with the sentinel, with nothing, or with a span of the
\* passage
Answers == {[isNone |-> TRUE, content |-> <<>>, failed |-> TRUE],
            None,
            [isNone |-> FALSE, content |-> NO_ANSWER, failed |-> FALSE],
            [isNone |-> FALSE, content |-> <<>>, failed |-> FALSE],
            [isNone |-> FALSE, content |-> <<"a">>, failed |-> FALSE]}

\* the orders in which n concurrent tasks may end
Completions(n) ==
    {c \in [1..n -> 1..n] : \A i, j \in 1..n : c[i] = c[j] => i = j}

\* the result of a None answer taken for text
output_map_none_as_text(ans) ==
    IF ans.isNone THEN <<"None">> ELSE ans.content

\* output_map=lambda ans: ans.content if ans is not None else NO_ANSWER
output_map(ans) == IF ans.isNone THEN NO_ANSWER ELSE ans.content

\* the results of the tasks as they come in: completion[k] is the position
\* of the passage whose task ends k-th; a task that fails gives no result
arrivals(answers, completion) ==
    [k \in 1..Len(completion) |->
        [index |-> completion[k],
         result |-> IF answers[completion[k]].failed THEN None
                    ELSE answers[completion[k]]]]

\* run_batch_tasks: one result per passage, collected by the position of
\* the passage it was submitted for
run_batch_tasks(answers, completion) ==
    LET arrived == arrivals(answers, completion)
    IN  [i \in 1..Len(answers) |->
            output_map(arrived[CHOOSE k \in 1..Len(arrived) :
                                   arrived[k].index = i].result)]

\* p_copy = p with no copy made: the passage itself
copy_aliased(heap, ref) == [heap |-> heap, ref |-> ref]

\* p_copy = p.copy(): a new object with the fields of heap[ref]
copy(heap, ref) == [heap |-> Append(heap, heap[ref]), ref |-> Len(heap) + 1]

\* line 1229 with the sentinel alone tested
no_extract_sentinel_only(e) == e = NO_ANSWER

\* line 1229
no_extract(e) == e = NO_ANSWER \/ Len(e) = 0

\* the loop over zip(passages, extracts), from position k on; the passages
\* are the objects 1..Len(extracts) of the heap
RECURSIVE ExtractLoop(_, _, _, _)
ExtractLoop(heap, extracts, k, passage_extracts) ==
    IF k > Len(extracts)
    THEN [heap |-> heap, refs |-> passage_extracts]
    ELSE LET e == extracts[k]
         IN  IF no_extract(e)
             THEN ExtractLoop(heap, extracts, k + 1, passage_extracts)
             ELSE LET c == copy(heap, k)
                  IN  ExtractLoop([c.heap EXCEPT ![c.ref].content = e],
                                  extracts, k + 1,
                                  Append(passage_extracts, c.ref))

\* the relevance extractor's configuration after lines 1202-1208
extractor_config(cfg, query) ==
    LET a == cfg.relevance_extractor_config
        l == IF a.llm = "None" THEN "parent" ELSE a.llm
    IN  [cfg EXCEPT
            !.relevance_extractor_config =
                [a EXCEPT !.llm = l,
                          !.query = query,
                          !.segment_length = cfg.extraction_granularity,
                          !.llm_stream = IF l = "own" THEN FALSE ELSE @],
            !.llm.stream = IF l = "parent" THEN FALSE ELSE @]

\* answers: how the extraction task of each passage ends; completion: the
\* order in which the tasks end.
\* passages: the passage objects as they are after the call.
get_verbatim_extracts(cfg, query, passages, answers, completion) ==
    IF cfg.relevance_extractor_config.isNone
    THEN [config |-> cfg, passages |-> passages, value |-> passages,
          calls |-> <<>>]
    ELSE LET extracts == run_batch_tasks(answers, completion)
             r == ExtractLoop(passages, extracts, 1, <<>>)
         IN  [config |-> extractor_config(cfg, query),
              passages |-> SubSeq(r.heap, 1, Len(passages)),
              value |-> [k \in 1..Len(r.refs) |-> r.heap[r.refs[k]]],
              calls |-> <<C("run_batch_tasks")>>]

ExtractorConfigs ==
    {[DefaultConfig.relevance_extractor_config EXCEPT !.isNone = TRUE],
     DefaultConfig.relevance_extractor_config,
     [DefaultConfig.relevance_extractor_config EXCEPT !.llm = "own"]}

InitExtract ==
    /\ \E a \in ExtractorConfigs :
          InitAgentWith(VecDB(FALSE), LLM(FALSE), Parser(FALSE),
                        [DefaultConfig EXCEPT !.relevance_extractor_config = a])
    /\ NoCall
    /\ args \in UNION {[query : {<<"q">>},
                        passages : [1..n -> ExtractItems],
                        answers : [1..n -> Answers],
                        completion : Completions(n)] : n \in 0..MaxExtract}

CallGetVerbatimExtracts ==
    /\ op = ""
    /\ op' = "get_verbatim_extracts"
    /\ LET r == get_verbatim_extracts(config, args.query, args.passages,
                                      args.answers, args.completion)
       IN  /\ ret' = [raised |-> "", value |-> r.value,
                       passages |-> r.passages]
           /\ calls' = r.calls
           /\ config' = r.config
    /\ UNCHANGED <<vecdb, llm, parser, original_docs, original_docs_length,
                   chunked_docs, chunked_docs_clean, dialog, response, args>>

NextExtract == CallGetVerbatimExtracts

SpecExtract == InitExtract /\ [][NextExtract]_vars

\* the positions of the passages that survive the extraction
Survivors(answers) ==
    {k \in 1..Len(answers) :
        /\ ~answers[k].failed
        /\ ~answers[k].isNone
        /\ answers[k].content # NO_ANSWER
        /\ answers[k].content # <<>>}

\* the j-th smallest element of a set of numbers
Nth(S, j) == CHOOSE k \in S : Cardinality({i \in S : i < k}) = j - 1

SameButContent(d, e) == [d EXCEPT !.content = e.content] = e

\* C6: for every surviving passage of get_verbatim_extracts the returned
\* extract has every field other than content (metadata and any further
\* field) equal to the source passage's, and the source passages (content
\* and all fields) are unchanged after the call.
ExtractsKeepFields ==
    op = "get_verbatim_extracts" =>
        /\ ret.raised = ""
        /\ ret.passages = args.passages
        /\ config.relevance_extractor_config.isNone =>
              ret.value = args.passages
        /\ ~config.relevance_extractor_config.isNone =>
              /\ Len(ret.value) = Cardinality(Survivors(args.answers))
              /\ \A j \in 1..Len(ret.value) :
                    LET k == Nth(Survivors(args.answers), j)
                    IN  /\ SameButContent(args.passages[k], ret.value[j])
                        /\ ret.value[j].content = args.answers[k].content

\* a passage with a further field survives with a new content
ExtractsWitness ==
    /\ op = "get_verbatim_extracts"
    /\ Len(ret.value) = 1
    /\ Len(args.passages) = 2
    /\ ret.value[1].title = "t"
    /\ ret.value[1].content = <<"a">>
    /\ args.passages[2].content = <<"a", "b">>
    /\ args.passages[2].title = "t"

----------------------------------------------------------------------------
(* The chunk corpus: ingest_docs, setup_documents, set_filter, clear, and   *)
(* the lexical and fuzzy matchers that read it.  Here text is a sequence of *)
(* words.                                                                   *)

MaxOriginal == 2

MaxStore == 3

StopWords == {"the"}

Lower(w) == CASE w = "The" -> "the" [] w = "Cat" -> "cat" [] OTHER -> w

\* preprocess_text: lower-cased, stop words stripped
RECURSIVE preprocess_text(_)
preprocess_text(text) ==
    IF text = <<>> THEN <<>>
    ELSE LET w == Lower(Head(text))
         IN  (IF w \in StopWords THEN <<>> ELSE <<w>>)
                \o preprocess_text(Tail(text))

\* Document._unique_hash_id: an id computed from the content
unique_hash_id(d) == ToString(d.content)

\* lines 386-388
with_ids(docs) ==
    [k \in 1..Len(docs) |->
        IF DocId(docs[k]) = ""
        THEN [docs[k] EXCEPT !.metadata.id = unique_hash_id(docs[k])]
        ELSE docs[k]]

\* the chunks of one document: size words each, the document's other
\* fields copied, an id of its own for every chunk
chunks_of(d, size) ==
    LET n == (Len(d.content) + size - 1) \div size
    IN  [k \in 1..n |->
            [d EXCEPT !.content = SubSeq(d.content, (k - 1) * size + 1,
                                         Min(k * size, Len(d.content))),
                      !.metadata.id = ToString(<<DocId(d), k>>),
                      !.metadata.window_ids = <<ToString(<<DocId(d), k>>)>>]]

\* Parser.split
RECURSIVE parser_split(_, _)
parser_split(docs, size) ==
    IF docs = <<>> THEN <<>>
    ELSE chunks_of(Head(docs), size) \o parser_split(Tail(docs), size)

\* Parser.add_window_ids with parsing.n_neighbor_ids = 0
add_window_ids(docs) ==
    [k \in 1..Len(docs) |->
        [docs[k] EXCEPT !.metadata.window_ids = <<DocId(docs[k])>>]]

\* num_tokens(doc_string(docs)): the words of "Extract: <content>" and
\* "Source: <source>" of every document
RECURSIVE doc_length(_)
doc_length(docs) ==
    IF docs = <<>> THEN 0
    ELSE Len(Head(docs).content) + 3 + doc_length(Tail(docs))

\* VectorStore.add_documents
RECURSIVE vecdb_add_documents(_, _)
vecdb_add_documents(db, docs) ==
    IF docs = <<>> THEN db
    ELSE LET d == Head(docs)
             ids == [k \in 1..Len(db.docs) |-> DocId(db.docs[k])]
             p == Position(ids, DocId(d))
         IN  vecdb_add_documents(
                 [db EXCEPT !.docs = IF db.upsert /\ p > 0
                                     THEN [@ EXCEPT ![p] = d]
                                     ELSE Append(@, d)],
                 Tail(docs))

\* a filter is "" (everything) or the source the documents must have
Matches(d, where) == where = "" \/ d.metadata.source = where

\* VectorStore.get_all_documents(where)
vecdb_get_all_documents(db, where) ==
    SelectSeq(db.docs, LAMBDA d : Matches(d, where))

\* lines 517-520, leaving out the chunks whose cleaned content is empty
clean_docs_nonempty(docs) ==
    SelectSeq([k \in 1..Len(docs) |->
                  [content |-> preprocess_text(docs[k].content),
                   metadata |-> docs[k].metadata,
                   fields |-> BaseFields, title |-> ""]],
              LAMBDA d : d.content # <<>>)

\* lines 517-520
clean_docs(docs) ==
    [k \in 1..Len(docs) |->
        [content |-> preprocess_text(docs[k].content),
         metadata |-> docs[k].metadata,
         fields |-> BaseFields, title |-> ""]]

\* filter: "None" for None.  Gives the two lists as they are after the call.
setup_documents(db, chunked, clean, docs, filter) ==
    IF filter = "None" /\ Len(docs) > 0
    THEN [raised |-> "", chunked_docs |-> chunked \o docs,
          chunked_docs_clean |-> clean_docs(chunked \o docs)]
    ELSE IF db.isNone
    THEN [raised |-> "ValueError", chunked_docs |-> chunked,
          chunked_docs_clean |-> clean]
    ELSE LET all == vecdb_get_all_documents(
                        db, IF filter = "None" THEN "" ELSE filter)
         IN  [raised |-> "", chunked_docs |-> all,
              chunked_docs_clean |-> clean_docs(all)]

Head_n(s, n) == SubSeq(s, 1, Min(n, Len(s)))

\* a document with no id yet, of two chunks, and one with an id
DocA == Doc("", <<"The", "Cat">>, "s1")

DocB == Doc("b", <<"dog">>, "s2")

IngestInputs == {<<>>, <<DocA>>, <<DocA, DocB>>}

SetupInputs == {<<>>, <<DocB>>}

Filters == {"None", "", "s1"}

Queries == {<<"The", "Cat">>}

\* a configuration whose limits the small corpus reaches: chunks of one
\* word, at most two chunks kept of an ingestion, one similar chunk asked for
CorpusConfig ==
    [DefaultConfig EXCEPT !.n_fuzzy_neighbor_words = 1, !.n_similar_docs = 1,
                          !.chunk_size = 1, !.max_chunks = 2]

VecDBs ==
    {VecDB(TRUE)} \cup
    {[VecDB(FALSE) EXCEPT !.upsert = up, !.collection_name = cname] :
        up \in BOOLEAN, cname \in {"None", "doc-chat-lancedb"}}

InitCorpus ==
    /\ \E db \in VecDBs, prnone \in BOOLEAN :
          /\ prnone => db = VecDB(FALSE)
          /\ InitAgentWith(db, LLM(FALSE), Parser(prnone), CorpusConfig)
    /\ NoCall
    /\ args = <<>>

\* ingest_docs(docs, split) with no metadata argument, and
\* config.add_fields_to_content empty
IngestDocs ==
    \E docs \in IngestInputs, split \in BOOLEAN :
        /\ Len(original_docs) + Len(docs) <= MaxOriginal
        /\ op' = "ingest_docs"
        /\ args' = [docs |-> docs, split |-> split]
        /\ calls' = <<>>
        /\ IF parser.isNone
           THEN /\ original_docs' = original_docs \o docs
                /\ ret' = Raise("ValueError")
                /\ UNCHANGED <<vecdb, original_docs_length, chunked_docs,
                               chunked_docs_clean>>
           ELSE LET identified == with_ids(docs)
                    split_docs == IF split
                                  THEN parser_split(identified, config.chunk_size)
                                  ELSE add_window_ids(identified)
                    cut == Head_n(split_docs, config.max_chunks)
                    db == vecdb_add_documents(vecdb, cut)
                    s == setup_documents(db, chunked_docs, chunked_docs_clean,
                                         cut, config.filter)
                IN  /\ original_docs' =
                          original_docs \o
                            (IF split THEN identified ELSE split_docs)
                    /\ IF vecdb.isNone
                       THEN /\ ret' = Raise("ValueError")
                            /\ UNCHANGED <<vecdb, original_docs_length,
                                           chunked_docs, chunked_docs_clean>>
                       ELSE /\ Len(db.docs) <= MaxStore
                            /\ Len(s.chunked_docs) <= MaxStore
                            /\ vecdb' = db
                            /\ original_docs_length' = doc_length(cut)
                            /\ chunked_docs' = s.chunked_docs
                            /\ chunked_docs_clean' = s.chunked_docs_clean
                            /\ ret' = Ok(Len(cut))
        /\ UNCHANGED <<llm, parser, config, dialog, response>>

SetupDocuments ==
    \E docs \in SetupInputs, filter \in Filters :
        /\ Len(chunked_docs) + Len(docs) <= MaxStore
        /\ op' = "setup_documents"
        /\ args' = [docs |-> docs, filter |-> filter]
        /\ calls' = <<>>
        /\ LET s == setup_documents(vecdb, chunked_docs, chunked_docs_clean,
                                    docs, filter)
           IN  /\ chunked_docs' = s.chunked_docs
               /\ chunked_docs_clean' = s.chunked_docs_clean
               /\ ret' = IF s.raised = "" THEN Ok(<<>>) ELSE Raise(s.raised)
        /\ UNCHANGED <<vecdb, llm, parser, config, original_docs,
                       original_docs_length, dialog, response>>

SetFilter ==
    \E filter \in Filters \ {"None"} :
        /\ op' = "set_filter"
        /\ args' = [filter |-> filter]
        /\ calls' = <<>>
        /\ config' = [config EXCEPT !.filter = filter]
        /\ LET s == setup_documents(vecdb, chunked_docs, chunked_docs_clean,
                                    <<>>, filter)
           IN  /\ chunked_docs' = s.chunked_docs
               /\ chunked_docs_clean' = s.chunked_docs_clean
               /\ ret' = IF s.raised = "" THEN Ok(<<>>) ELSE Raise(s.raised)
        /\ UNCHANGED <<vecdb, llm, parser, original_docs,
                       original_docs_length, dialog, response>>

\* deleted: whether vecdb.delete_collection and VectorStore.create went
\* through (an exception there is logged and swallowed)
Clear ==
    \E deleted \in BOOLEAN :
        /\ op' = "clear"
        /\ args' = <<>>
        /\ IF vecdb.isNone
           THEN /\ ret' = Raise("ValueError")
                /\ calls' = <<>>
                /\ UNCHANGED <<vecdb, original_docs, original_docs_length,
                               chunked_docs, chunked_docs_clean>>
           ELSE /\ original_docs' = <<>>
                /\ original_docs_length' = 0
                /\ chunked_docs' = <<>>
                /\ chunked_docs_clean' = <<>>
                /\ ret' = Ok(<<>>)
                /\ IF vecdb.collection_name = "None"
                   THEN /\ calls' = <<>>
                        /\ UNCHANGED vecdb
                   ELSE IF deleted
                   THEN /\ calls' = <<C("vecdb.delete_collection")>>
                        /\ vecdb' = [vecdb EXCEPT !.docs = <<>>]
                   ELSE /\ calls' = <<C("vecdb.delete_collection"),
                                      C("logger.warning")>>
                        /\ UNCHANGED vecdb
        /\ UNCHANGED <<llm, parser, config, dialog, response>>

\* the rank of position i when keys are sorted in ascending order and the
\* list is then reversed: equal keys come out in reverse order
RankDescTiesReversed(keys, i) ==
    1 + Cardinality({j \in 1..Len(keys) : keys[j] > keys[i]})
      + Cardinality({j \in (i + 1)..Len(keys) : keys[j] = keys[i]})

\* the rank of position i when keys are sorted in descending order, equal
\* keys keeping their order: sorted(..., reverse=True) is stable
RankDesc(keys, i) ==
    1 + Cardinality({j \in 1..Len(keys) : keys[j] > keys[i]})
      + Cardinality({j \in 1..(i - 1) : keys[j] = keys[i]})

\* the positions 1..Len(keys) in descending order of their keys
SortedDesc(keys) ==
    [r \in 1..Len(keys) |-> CHOOSE i \in 1..Len(keys) : RankDesc(keys, i) = r]

\* how many words of the text are words of the query
Overlap(text, query) ==
    Cardinality({k \in 1..Len(text) :
                    \E q \in 1..Len(query) : query[q] = text[k]})

\* find_closest_matches_with_bm25: the k chunks whose cleaned text scores
\* highest against the cleaned query, each with its score
find_closest_matches_with_bm25(docs, docs_clean, query, k) ==
    LET q == preprocess_text(query)
        scores == [i \in 1..Len(docs_clean) |-> Overlap(docs_clean[i].content, q)]
        order == SortedDesc(scores)
    IN  [r \in 1..Min(k, Len(docs_clean)) |->
            <<docs[order[r]], scores[order[r]]>>]

\* the words of text within n words of position p
Around(text, p, n) == SubSeq(text, Max(1, p - n), Min(Len(text), p + n))

\* the first position of the text whose cleaned word is a word of the query
MatchAt(text, query) ==
    IF \E p \in 1..Len(text) : Overlap(preprocess_text(<<text[p]>>), query) > 0
    THEN CHOOSE p \in 1..Len(text) :
            /\ Overlap(preprocess_text(<<text[p]>>), query) > 0
            /\ \A j \in 1..(p - 1) :
                  Overlap(preprocess_text(<<text[j]>>), query) = 0
    ELSE 0

\* find_fuzzy_matches_in_docs: up to k documents whose content is the
\* matched span with words_before and words_after words around it
find_fuzzy_matches_in_docs(query, docs, docs_clean, k, words_before) ==
    LET q == preprocess_text(query)
        hits == SelectSeq([i \in 1..Len(docs) |-> i],
                          LAMBDA i : Overlap(docs_clean[i].content, q) > 0
                                        /\ MatchAt(docs[i].content, q) > 0)
    IN  [r \in 1..Min(k, Len(hits)) |->
            [content |-> Around(docs[hits[r]].content,
                                MatchAt(docs[hits[r]].content, q), words_before),
             metadata |-> docs[hits[r]].metadata,
             fields |-> BaseFields, title |-> ""]]

\* lines 850-855 with the tests on the lengths left out
bm25_corpus_missing_unchecked(chunked, clean) == FALSE

\* lines 850-855; the lists are never None
bm25_corpus_missing(chunked, clean) == Len(chunked) = 0 \/ Len(clean) = 0

get_similar_chunks_bm25(chunked, clean, cfg, query, multiple) ==
    IF bm25_corpus_missing(chunked, clean)
    THEN [value |-> <<>>, calls |-> <<C("logger.warning")>>]
    ELSE [value |-> find_closest_matches_with_bm25(
                        chunked, clean, query, cfg.n_similar_docs * multiple),
          calls |-> <<Call("find_closest_matches_with_bm25", query,
                           cfg.n_similar_docs * multiple)>>]

\* lines 868-873: self.chunked_docs is None, self.chunked_docs_clean is None;
\* the lists are never None
fuzzy_corpus_missing(chunked, clean) == FALSE

get_fuzzy_matches(chunked, clean, cfg, query, multiple) ==
    IF fuzzy_corpus_missing(chunked, clean)
    THEN [value |-> <<>>, calls |-> <<C("logger.warning")>>]
    ELSE [value |-> find_fuzzy_matches_in_docs(
                        query, chunked, clean, cfg.n_similar_docs * multiple,
                        cfg.n_fuzzy_neighbor_words),
          calls |-> <<Call("find_fuzzy_matches_in_docs", query,
                           cfg.n_similar_docs * multiple)>>]

Multiples == {1, 3}

GetSimilarChunksBm25 ==
    \E query \in Queries, multiple \in Multiples :
        /\ op' = "get_similar_chunks_bm25"
        /\ args' = [query |-> query, multiple |-> multiple]
        /\ LET r == get_similar_chunks_bm25(chunked_docs, chunked_docs_clean,
                                            config, query, multiple)
           IN  /\ ret' = Ok(r.value)
               /\ calls' = r.calls
        /\ UNCHANGED agent

GetFuzzyMatches ==
    \E query \in Queries, multiple \in Multiples :
        /\ op' = "get_fuzzy_matches"
        /\ args' = [query |-> query, multiple |-> multiple]
        /\ LET r == get_fuzzy_matches(chunked_docs, chunked_docs_clean,
                                      config, query, multiple)
           IN  /\ ret' = Ok(r.value)
               /\ calls' = r.calls
        /\ UNCHANGED agent

NextCorpus ==
    \/ IngestDocs
    \/ SetupDocuments
    \/ SetFilter
    \/ Clear
    \/ GetSimilarChunksBm25
    \/ GetFuzzyMatches

SpecCorpus == InitCorpus /\ [][NextCorpus]_vars

\* C8: when the chunk corpus is empty (chunked_docs or chunked_docs_clean
\* has no entries) get_similar_chunks_bm25 returns an empty list without
\* raising and without invoking the BM25 matcher.
Bm25FailsSoft ==
    (op = "get_similar_chunks_bm25"
       /\ (Len(chunked_docs) = 0 \/ Len(chunked_docs_clean) = 0)) =>
        /\ ret.raised = ""
        /\ ret.value = <<>>
        /\ \A k \in 1..Len(calls) :
              calls[k].fn # "find_closest_matches_with_bm25"

\* the corpus was filled and then cleared before the BM25 search
Bm25FailsSoftWitness ==
    /\ op = "get_similar_chunks_bm25"
    /\ Len(chunked_docs) = 0
    /\ Len(original_docs) = 0
    /\ Len(vecdb.docs) > 0
    /\ calls = <<C("logger.warning")>>

\* C9: when the chunk corpus is empty get_fuzzy_matches fails soft as the
\* BM25 matcher does: it returns an empty list with a logged warning,
\* without raising and without invoking the fuzzy matcher.
FuzzyFailsSoft ==
    (op = "get_fuzzy_matches" /\ Len(chunked_docs) = 0) =>
        /\ ret.raised = ""
        /\ ret.value = <<>>
        /\ calls = <<C("logger.warning")>>

\* the cleaned form of a text: its words lower-cased, the stop words left out
CleanOf(text) ==
    SelectSeq([k \in 1..Len(text) |-> Lower(text[k])],
              LAMBDA w : w \notin StopWords)

----------------------------------------------------------------------------
(* get_relevant_chunks: the retrieval orchestrator *)

\* a dict built from the items in order, items[k] under keys[k]: one
\* entry per key, in the order the keys first came, each holding the item
\* last written
UniqueBy(items, keys) ==
    LET n == Len(items)
        firsts == SelectSeq([k \in 1..n |-> k],
                            LAMBDA k : \A j \in 1..(k - 1) : keys[j] # keys[k])
        last(k) == CHOOSE j \in k..n :
                      /\ keys[j] = keys[k]
                      /\ \A i \in (j + 1)..n : keys[i] # keys[k]
    IN  [r \in 1..Len(firsts) |-> items[last(firsts[r])]]

\* ranking: the order in which the query's embedding puts the stored chunks
\* VectorStore.similar_texts_with_scores(query, k, where)
vecdb_similar_texts_with_scores(db, query, k, where, ranking) ==
    LET found == vecdb_get_all_documents(db, IF where = "None" THEN "" ELSE where)
        ranked == IF ranking = "backward" THEN Reverse(found) ELSE found
    IN  [r \in 1..Min(k, Len(ranked)) |->
            <<ranked[r], Overlap(preprocess_text(ranked[r].content),
                                 preprocess_text(query))>>]

\* self.vecdb is not None here: get_relevant_chunks has tested it
get_semantic_search_results(db, cfg, query, k, ranking) ==
    vecdb_similar_texts_with_scores(db, query, k, cfg.filter, ranking)

\* no more asked for when the cross-encoder is to rerank
retrieval_multiple_one(cfg) == 1

\* line 1075
retrieval_multiple(cfg) ==
    IF cfg.cross_encoder_reranking_model = "" THEN 1 ELSE 3

\* lines 1082-1086: the hits of the query and of every proxy, in order
RECURSIVE semantic_hits(_, _, _, _, _)
semantic_hits(db, cfg, qs, rankings, i) ==
    IF i > Len(qs) THEN [value |-> <<>>, calls |-> <<>>]
    ELSE LET k == cfg.n_similar_docs * retrieval_multiple(cfg)
             rest == semantic_hits(db, cfg, qs, rankings, i + 1)
         IN  [value |-> get_semantic_search_results(db, cfg, qs[i], k,
                                                    rankings[i]) \o rest.value,
              calls |-> <<Call("vecdb.similar_texts_with_scores", qs[i], k)>>
                           \o rest.calls]

Docs(docs_scores) == [k \in 1..Len(docs_scores) |-> docs_scores[k][1]]

\* lines 1105-1106 left out
unique_passages_kept(passages) == passages

\* lines 1105-1106: id2passage
unique_passages(passages) ==
    UniqueBy(passages, [k \in 1..Len(passages) |-> DocId(passages[k])])

\* the first proxy, when there is one, handed to the lexical searches
lexical_query_proxy(query, query_proxies) ==
    IF query_proxies = <<>> THEN query ELSE query_proxies[1]

\* lines 1097, 1101: what the BM25 and the fuzzy search are asked
lexical_query(query, query_proxies) == query

\* the list of cleaned chunks taken for the list of passages
passages_list_clean == "chunked_docs_clean"

\* line 1090: passages is a list of its own, made by the comprehension
passages_list == "passages"

\* lines 1080-1090: the agent's two lists and the new list of passages, one
\* passage per id
semantic_stage(db, cfg, chunked, clean, query, query_proxies, rankings) ==
    LET sem == semantic_hits(db, cfg, <<query>> \o query_proxies, rankings, 1)
        docs_and_scores ==
            UniqueBy(sem.value,
                     [k \in 1..Len(sem.value) |-> DocId(sem.value[k][1])])
    IN  [lists |-> [chunked_docs |-> chunked, chunked_docs_clean |-> clean,
                    passages |-> Docs(docs_and_scores)],
         calls |-> sem.calls]

\* lines 1096-1098; s: the lists and the calls so far; += extends the list
\* in place
bm25_stage(cfg, lexical, s) ==
    IF ~cfg.use_bm25_search THEN s
    ELSE LET bm25 == get_similar_chunks_bm25(
                         s.lists.chunked_docs, s.lists.chunked_docs_clean,
                         cfg, lexical, retrieval_multiple(cfg))
         IN  [lists |-> [s.lists EXCEPT ![passages_list] = @ \o Docs(bm25.value)],
              calls |-> s.calls
                           \o <<Call("get_similar_chunks_bm25", lexical,
                                      retrieval_multiple(cfg))>>
                           \o bm25.calls]

\* lines 1100-1102
fuzzy_stage(cfg, lexical, s) ==
    IF ~cfg.use_fuzzy_match THEN s
    ELSE LET fuzzy == get_fuzzy_matches(
                          s.lists.chunked_docs, s.lists.chunked_docs_clean,
                          cfg, lexical, retrieval_multiple(cfg))
         IN  [lists |-> [s.lists EXCEPT ![passages_list] = @ \o fuzzy.value],
              calls |-> s.calls
                           \o <<Call("get_fuzzy_matches", lexical,
                                      retrieval_multiple(cfg))>>
                           \o fuzzy.calls]

\* lines 1105-1106; s: the lists and the calls after the searches
unique_stage(s) ==
    [value |-> unique_passages(s.lists[passages_list]), calls |-> s.calls,
     chunked_docs |-> s.lists.chunked_docs,
     chunked_docs_clean |-> s.lists.chunked_docs_clean]

\* lines 1080-1106: the merged passages, one per id, and the agent's lists
merged_passages(db, cfg, chunked, clean, query, query_proxies, rankings) ==
    unique_stage(
        fuzzy_stage(
            cfg, lexical_query(query, query_proxies),
            bm25_stage(
                cfg, lexical_query(query, query_proxies),
                semantic_stage(db, cfg, chunked, clean, query, query_proxies,
                               rankings))))

\* 1 / (1 + exp(-x)), in hundredths
Sigmoid(x) == CASE x = -1 -> 27 [] x = 0 -> 50 [] x = 1 -> 73

\* logits: what the cross-encoder predicts for each (query, passage) pair;
\* available: whether sentence_transformers can be imported
rerank_with_cross_encoder(cfg, query, passages, logits, available) ==
    IF ~available THEN Raise("ImportError")
    ELSE LET scores == [k \in 1..Len(passages) |-> Sigmoid(logits[k])]
             sorted_pairs == SortedDesc(scores)
         IN  Ok([r \in 1..Min(cfg.n_similar_docs, Len(passages)) |->
                    passages[sorted_pairs[r]]])

\* lines 1111-1113; m: the merged passages and the calls so far
window_stage(db, cfg, m) ==
    LET w == add_context_window(
                 db, cfg, [k \in 1..Len(m.value) |-> <<m.value[k], 0>>])
    IN  [raised |-> "", value |-> Docs(w.value),
         calls |-> m.calls \o <<C("add_context_window")>> \o w.calls]

\* lines 1118-1119; r: the passages and the calls so far
cross_encoder_stage(cfg, query, r, env) ==
    IF cfg.cross_encoder_reranking_model = "" THEN r
    ELSE LET x == rerank_with_cross_encoder(cfg, query, r.value, env.logits,
                                            env.available)
         IN  [raised |-> x.raised, value |-> x.value,
              calls |-> r.calls \o <<C("rerank_with_cross_encoder")>>]

\* lines 1121-1123
diversity_stage(db, cfg, r, env) ==
    IF r.raised # "" \/ ~cfg.rerank_diversity THEN r
    ELSE LET d == rerank_with_diversity(db, r.value, env.embs)
         IN  [raised |-> d.raised, value |-> d.value,
              calls |-> r.calls \o <<C("rerank_with_diversity")>>]

\* lines 1125-1128
periphery_stage(cfg, r) ==
    IF r.raised # "" \/ ~cfg.rerank_periphery THEN r
    ELSE [raised |-> "", value |-> rerank_to_periphery(r.value),
          calls |-> r.calls \o <<C("rerank_to_periphery")>>]

\* line 1108 left out
no_passages_unchecked(passages) == FALSE

\* line 1108
no_passages(passages) == Len(passages) = 0

\* lines 1108-1130 with the periphery stage ahead of the diversity stage
reranked_passages_periphery_first(db, cfg, query, m, env) ==
    IF no_passages(m.value)
    THEN [raised |-> "", value |-> <<>>, calls |-> m.calls]
    ELSE diversity_stage(
             db, cfg,
             periphery_stage(
                 cfg,
                 cross_encoder_stage(cfg, query, window_stage(db, cfg, m), env)),
             env)

\* lines 1108-1130; m: the merged passages and the calls so far
reranked_passages(db, cfg, query, m, env) ==
    IF no_passages(m.value)
    THEN [raised |-> "", value |-> <<>>, calls |-> m.calls]
    ELSE periphery_stage(
             cfg,
             diversity_stage(
                 db, cfg,
                 cross_encoder_stage(cfg, query, window_stage(db, cfg, m), env),
                 env))

\* r: what lines 1108-1130 give; m: the merged passages and the agent's
\* lists, which nothing after the merge reads or writes
with_corpus(r, m) ==
    [raised |-> r.raised, value |-> r.value, calls |-> r.calls,
     chunked_docs |-> m.chunked_docs,
     chunked_docs_clean |-> m.chunked_docs_clean]

\* lines 1108-1130; m: the merged passages, the calls so far and the lists
chunks_found(db, cfg, query, m, env) ==
    with_corpus(reranked_passages(db, cfg, query, m, env), m)

\* env: the collaborators' answers: rankings (one per query and proxy),
\* available, logits, embs
get_relevant_chunks(db, cfg, chunked, clean, query, query_proxies, env) ==
    IF db.isNone
    THEN [raised |-> "ValueError", value |-> <<>>, calls |-> <<>>,
          chunked_docs |-> chunked, chunked_docs_clean |-> clean]
    ELSE chunks_found(
             db, cfg, query,
             merged_passages(db, cfg, chunked, clean, query, query_proxies,
                             env.rankings),
             env)

\* the answers the collaborators may give in one get_relevant_chunks call:
\* no more logits and embeddings than the passages that reach those stages
Envs(db, cfg, chunked, clean, query, query_proxies) ==
    UNION {
        LET n == IF db.isNone THEN 0
                 ELSE Len(merged_passages(db, cfg, chunked, clean, query,
                                          query_proxies, rankings).value)
            crossed == cfg.cross_encoder_reranking_model # ""
            n2 == IF crossed THEN Min(cfg.n_similar_docs, n) ELSE n
        IN  [rankings : {rankings},
             available : IF crossed /\ n > 0 THEN BOOLEAN ELSE {TRUE},
             logits : IF crossed THEN [1..n -> {0, 1}] ELSE {<<>>},
             embs : IF cfg.rerank_diversity
                    THEN [1..n2 -> {<<5, 0>>, <<0, 5>>}] ELSE {<<>>}]
        : rankings \in [1..(1 + Len(query_proxies)) -> {"forward", "backward"}]}

\* a configuration whose limits the small corpus reaches: two similar
\* chunks asked for, the fuzzy matcher giving the matched word alone
RetrieveConfigs ==
    {[DefaultConfig EXCEPT !.n_similar_docs = 2,
                           !.n_fuzzy_neighbor_words = 0,
                           !.use_bm25_search = bm25,
                           !.use_fuzzy_match = fuzzy,
                           !.cross_encoder_reranking_model = model,
                           !.rerank_diversity = diversity,
                           !.rerank_periphery = periphery,
                           !.n_neighbor_chunks = n] :
        bm25 \in BOOLEAN, fuzzy \in BOOLEAN,
        model \in {"", "cross-encoder/ms-marco-MiniLM-L-6-v2"},
        diversity \in BOOLEAN, periphery \in BOOLEAN, n \in {0, 1}}

\* the corpus: nothing ingested; three chunks of one document; a chunk
\* stored twice (the same document ingested twice)
Corpora == {<<>>, StoredChunks, <<W1, W1, W2>>}

RetrieveQueries == {<<"One", "three">>}

RetrieveProxies == {<<>>, <<<<"dos">>>>}

InitRetrieve ==
    /\ \E cfg \in RetrieveConfigs, corpus \in Corpora, none \in BOOLEAN :
          /\ none => (cfg = CHOOSE c \in RetrieveConfigs : TRUE)
          /\ vecdb = [VecDB(none) EXCEPT !.docs = IF none THEN <<>> ELSE corpus]
          /\ llm = LLM(FALSE)
          /\ parser = Parser(FALSE)
          /\ config = cfg
          /\ original_docs = <<>>
          /\ original_docs_length = 0
          /\ chunked_docs = corpus
          /\ chunked_docs_clean = clean_docs(corpus)
          /\ dialog = <<>>
          /\ response = NoResponse
    /\ NoCall
    /\ args = <<>>

GetRelevantChunks ==
    \E query \in RetrieveQueries, query_proxies \in RetrieveProxies :
      \E env \in Envs(vecdb, config, chunked_docs, chunked_docs_clean,
                      query, query_proxies) :
        /\ op = ""
        /\ op' = "get_relevant_chunks"
        /\ args' = [query |-> query, query_proxies |-> query_proxies,
                    env |-> env]
        /\ \E r \in {get_relevant_chunks(vecdb, config, chunked_docs,
                                          chunked_docs_clean, query,
                                          query_proxies, env)} :
               /\ ret' = [raised |-> r.raised, value |-> r.value]
               /\ calls' = r.calls
               /\ chunked_docs' = r.chunked_docs
               /\ chunked_docs_clean' = r.chunked_docs_clean
        /\ UNCHANGED <<vecdb, llm, parser, config, original_docs,
                       original_docs_length, dialog, response>>

NextRetrieve == GetRelevantChunks

SpecRetrieve == InitRetrieve /\ [][NextRetrieve]_vars

\* C1: for any configuration and any results of the semantic, BM25 and
\* fuzzy searches (the same document id coming from several of them, or
\* several times from one), the list get_relevant_chunks returns holds at
\* most one passage per document id.
OnePassagePerId ==
    (op = "get_relevant_chunks" /\ ret.raised = "") =>
        \A i, j \in 1..Len(ret.value) :
            DocId(ret.value[i]) = DocId(ret.value[j]) => i = j

\* the same id came from the vector store twice and from both matchers,
\* and every stage ran
OnePassagePerIdWitness ==
    /\ op = "get_relevant_chunks"
    /\ ret.raised = ""
    /\ vecdb.docs = <<W1, W1, W2>>
    /\ config.use_bm25_search
    /\ config.use_fuzzy_match
    /\ config.n_neighbor_chunks = 1
    /\ config.cross_encoder_reranking_model # ""
    /\ config.rerank_diversity
    /\ config.rerank_periphery
    /\ Len(args.query_proxies) = 1
    /\ Len(ret.value) = 2

----------------------------------------------------------------------------
(* get_relevant_extracts, answer_from_docs *)

MaxDialog == 1

\* "\n\n"
SEP == "\n\n"

\* str.split(sep): the pieces between the separators, at least one
RECURSIVE Split(_, _)
Split(s, sep) ==
    LET p == Position(s, sep)
    IN  IF p = 0 THEN <<s>>
        ELSE <<SubSeq(s, 1, p - 1)>> \o Split(SubSeq(s, p + 1, Len(s)), sep)

\* sep.join(parts)
RECURSIVE Join(_, _)
Join(parts, sep) ==
    IF parts = <<>> THEN <<>>
    ELSE IF Len(parts) = 1 THEN parts[1]
    ELSE parts[1] \o <<sep>> \o Join(Tail(parts), sep)

\* the names under which a call of the language model is logged
LLMCalls ==
    {"llm.followup_to_standalone", "llm_response_forget",
     "_llm_response_temp_context", "run_batch_tasks"}

\* line 1152 without the look at the dialog
standalone_wanted_always(dlg, cfg) == ~cfg.assistant_mode

\* line 1152
standalone_wanted(dlg, cfg) == Len(dlg) > 0 /\ ~cfg.assistant_mode

\* lines 1152-1158; o.standalone: what the model makes of the query
standalone_query(dlg, cfg, query, o) ==
    IF standalone_wanted(dlg, cfg) THEN o.standalone ELSE query

\* lines 1161-1168; o.hypothetical, o.rephrases: the model's responses
query_proxies(cfg, o) ==
    (IF cfg.hypothetical_answer THEN <<o.hypothetical>> ELSE <<>>)
        \o (IF cfg.n_query_rephrases > 0 THEN Split(o.rephrases, SEP) ELSE <<>>)

\* the calls of lines 1152-1168, up to the first that raises
expansion_calls(lm, dlg, cfg, query, o) ==
    LET q == standalone_query(dlg, cfg, query, o)
    IN  (IF standalone_wanted(dlg, cfg) /\ ~lm.isNone
         THEN <<Call("llm.followup_to_standalone", query, 0)>> ELSE <<>>)
        \o (IF cfg.hypothetical_answer /\ ~(standalone_wanted(dlg, cfg) /\ lm.isNone)
            THEN <<C("llm_hypothetical_answer")>>
                     \o (IF lm.isNone THEN <<>>
                         ELSE <<Call("llm_response_forget", q, 0)>>)
            ELSE <<>>)
        \o (IF cfg.n_query_rephrases > 0 /\ ~lm.isNone
            THEN <<C("llm_rephrase_query"), Call("llm_response_forget", q, 0)>>
            ELSE IF cfg.n_query_rephrases > 0 /\ ~cfg.hypothetical_answer
                    /\ ~standalone_wanted(dlg, cfg)
            THEN <<C("llm_rephrase_query")>>
            ELSE <<>>)

\* what lines 1152-1168 raise: None has no streaming to switch (1157);
\* llm_hypothetical_answer and llm_rephrase_query want an LLM (811, 831)
expansion_raised(lm, dlg, cfg) ==
    IF ~lm.isNone THEN ""
    ELSE IF standalone_wanted(dlg, cfg) THEN "AttributeError"
    ELSE IF cfg.hypothetical_answer \/ cfg.n_query_rephrases > 0
    THEN "ValueError"
    ELSE ""

\* line 1170; c: the calls so far
chunks_stage(db, cfg, chunked, clean, q, proxies, env, c) ==
    [get_relevant_chunks(db, cfg, chunked, clean, q, proxies, env)
        EXCEPT !.calls = c \o <<Call("get_relevant_chunks", q, Len(proxies))>>
                           \o @]

\* lines 1179-1181; c: the calls so far; e: what get_verbatim_extracts gave
extracts_of(q, c, e) ==
    [raised |-> "", query |-> q,
     extracts |-> SelectSeq(e.value, LAMBDA x : x.content # NO_ANSWER),
     config |-> e.config,
     calls |-> c \o <<C("get_verbatim_extracts")>> \o e.calls]

\* lines 1172-1181; r: what get_relevant_chunks gave, and the calls so far
extracts_stage(lm, cfg, q, r, answers, completion) ==
    IF r.raised # "" \/ Len(r.value) = 0
    THEN [raised |-> r.raised, query |-> q, extracts |-> <<>>,
          config |-> cfg, calls |-> r.calls]
    ELSE IF lm.isNone
    THEN [raised |-> "AttributeError", query |-> q, extracts |-> <<>>,
          config |-> cfg, calls |-> r.calls]
    ELSE extracts_of(q, r.calls,
                     get_verbatim_extracts(cfg, q, r.value, answers,
                                           completion))

\* o: the answers of the collaborators during the call
get_relevant_extracts(lm, db, cfg, chunked, clean, dlg, query, o) ==
    IF expansion_raised(lm, dlg, cfg) # ""
    THEN [raised |-> expansion_raised(lm, dlg, cfg), query |-> query,
          extracts |-> <<>>, config |-> cfg,
          calls |-> expansion_calls(lm, dlg, cfg, query, o)]
    ELSE extracts_stage(
             lm, cfg, standalone_query(dlg, cfg, query, o),
             chunks_stage(db, cfg, chunked, clean,
                          standalone_query(dlg, cfg, query, o),
                          query_proxies(cfg, o), o.env,
                          expansion_calls(lm, dlg, cfg, query, o)),
             o.answers, o.completion)

\* lines 1247-1253
no_answer_response ==
    [isNone |-> FALSE, content |-> NO_ANSWER, source |-> <<"None">>]

\* line 1256 left out
no_extracts_unchecked(extracts) == FALSE

\* line 1256
no_extracts(extracts) == Len(extracts) = 0

\* ChatAgent.update_dialog
update_dialog(dlg, query, content) == Append(dlg, <<query, content>>)

\* lines 1256-1283; x: what get_relevant_extracts gave
\* lines 1266-1270: the extracts joined, with the source of the first
extracts_response(extracts) ==
    [isNone |-> FALSE,
     content |-> Join([k \in 1..Len(extracts) |-> extracts[k].content], SEP),
     source |-> <<extracts[1].metadata.source>>]

\* the turn added and the response saved for the extracts as well
retrieve_only_answer_saved(dlg, resp, x) ==
    [raised |-> "", value |-> extracts_response(x.extracts),
     query |-> x.query, extracts |-> x.extracts, config |-> x.config,
     dialog |-> update_dialog(dlg, x.query,
                              extracts_response(x.extracts).content),
     response |-> extracts_response(x.extracts),
     calls |-> x.calls \o <<C("update_dialog")>>]

\* lines 1260-1270; x: what get_relevant_extracts gave
retrieve_only_answer(dlg, resp, x) ==
    [raised |-> IF Len(x.extracts) = 0 THEN "IndexError" ELSE "",
     value |-> IF Len(x.extracts) = 0 THEN NoResponse
               ELSE extracts_response(x.extracts),
     query |-> x.query, extracts |-> x.extracts, config |-> x.config,
     dialog |-> dlg, response |-> resp, calls |-> x.calls]

answer_from_extracts(lm, cfg, dlg, resp, x, summary) ==
    LET same(e, v, c) ==
            [raised |-> e, value |-> v, query |-> x.query,
             extracts |-> x.extracts, config |-> x.config,
             dialog |-> dlg, response |-> resp, calls |-> x.calls \o c]
    IN  IF x.raised # "" THEN same(x.raised, NoResponse, <<>>)
        ELSE IF no_extracts(x.extracts) THEN same("", no_answer_response, <<>>)
        ELSE IF lm.isNone THEN same("ValueError", NoResponse, <<>>)
        ELSE IF cfg.retrieve_only
        THEN retrieve_only_answer(dlg, resp, x)
        ELSE LET s == get_summary_answer(x.config, summary)
                 r == [isNone |-> FALSE, content |-> s.content,
                       source |-> s.source]
             IN  [raised |-> "", value |-> r, query |-> x.query,
                  extracts |-> x.extracts, config |-> x.config,
                  dialog |-> update_dialog(dlg, x.query, r.content),
                  response |-> r,
                  calls |-> x.calls \o <<C("get_summary_answer")>> \o s.calls
                               \o <<C("update_dialog")>>]

answer_from_docs(lm, db, cfg, chunked, clean, dlg, resp, query, o) ==
    answer_from_extracts(
        lm, cfg, dlg, resp,
        get_relevant_extracts(lm, db, cfg, chunked, clean, dlg, query, o),
        o.summary)

\* two similar chunks asked for, from the vector store alone, in the order
\* it gives them
AnswerConfigs ==
    {[DefaultConfig EXCEPT
         !.n_similar_docs = 2,
         !.use_bm25_search = FALSE,
         !.use_fuzzy_match = FALSE,
         !.assistant_mode = assistant,
         !.hypothetical_answer = hypothetical,
         !.n_query_rephrases = IF rephrases THEN 2 ELSE 0,
         !.retrieve_only = only,
         !.relevance_extractor_config =
             [DefaultConfig.relevance_extractor_config EXCEPT !.isNone = none]] :
        assistant \in BOOLEAN, hypothetical \in BOOLEAN, rephrases \in BOOLEAN,
        only \in BOOLEAN, none \in BOOLEAN}

AnswerQueries == {<<"One", "three">>}

Standalones == {<<"two">>}

Hypotheticals == {<<"HYPOTHETICAL", "ANSWER:", "uno">>}

RephraseResponses == {<<"dos", SEP, "tres">>, <<>>}

Summaries == {ExampleResponse, <<"a">>}

\* the extraction task gave nothing, the sentinel, or a span
ExtractAnswers ==
    {a \in Answers : ~a.failed /\ (a.isNone \/ a.content # <<>>)}

\* an earlier turn: the query and the answer get_summary_answer made
Turn == <<<<"three">>, ParseAnswer(ExampleResponse).content>>

InitAnswer ==
    /\ \E cfg \in AnswerConfigs, corpus \in {<<>>, StoredChunks},
          none \in BOOLEAN, turns \in 0..MaxDialog :
          /\ vecdb = [VecDB(FALSE) EXCEPT !.docs = corpus]
          /\ llm = LLM(none)
          /\ parser = Parser(FALSE)
          /\ config = cfg
          /\ original_docs = <<>>
          /\ original_docs_length = 0
          /\ chunked_docs = corpus
          /\ chunked_docs_clean = clean_docs(corpus)
          /\ (none \/ corpus = <<>>) => turns = 0
          /\ dialog = [k \in 1..turns |-> Turn]
          /\ response =
                IF turns = 0 THEN NoResponse
                ELSE [isNone |-> FALSE, content |-> Turn[2],
                      source |-> get_summary_answer(cfg, ExampleResponse).source]
    /\ NoCall
    /\ args = <<>>

\* whether the call reaches get_verbatim_extracts' batch of tasks
extracting(lm, cfg, dlg) ==
    /\ expansion_raised(lm, dlg, cfg) = ""
    /\ ~lm.isNone
    /\ ~cfg.relevance_extractor_config.isNone

\* whether the call reaches get_summary_answer; x: what
\* get_relevant_extracts gave
summarising(lm, cfg, x) ==
    x.raised = "" /\ Len(x.extracts) > 0 /\ ~lm.isNone /\ ~cfg.retrieve_only

\* the agent and the log after the call; r: what answer_from_docs gave
Answered(query, o, r) ==
    /\ op' = "answer_from_docs"
    /\ args' = [query |-> query, o |-> o]
    /\ ret' = [raised |-> r.raised, value |-> r.value, query |-> r.query,
               extracts |-> r.extracts]
    /\ calls' = r.calls
    /\ config' = r.config
    /\ dialog' = r.dialog
    /\ response' = r.response

AnswerFromDocs ==
    /\ op = ""
    /\ \E query \in AnswerQueries, standalone \in Standalones,
          hypothetical \in Hypotheticals,
          rephrases \in (IF config.n_query_rephrases > 0 /\ ~llm.isNone
                         THEN RephraseResponses ELSE {<<>>}) :
        LET o1 == [standalone |-> standalone, hypothetical |-> hypothetical,
                   rephrases |-> rephrases]
        IN  \E env \in {e \in Envs(vecdb, config, chunked_docs,
                                    chunked_docs_clean,
                                    standalone_query(dialog, config, query, o1),
                                    query_proxies(config, o1)) :
                            \A i \in 1..Len(e.rankings) :
                                e.rankings[i] = e.rankings[1]} :
            \E answers \in
                  (IF extracting(llm, config, dialog)
                   THEN [1..Len(get_relevant_chunks(
                                    vecdb, config, chunked_docs,
                                    chunked_docs_clean,
                                    standalone_query(dialog, config, query, o1),
                                    query_proxies(config, o1), env).value)
                           -> ExtractAnswers]
                   ELSE {<<>>}) :
                LET o2 == [standalone |-> standalone,
                           hypothetical |-> hypothetical,
                           rephrases |-> rephrases, env |-> env,
                           answers |-> answers,
                           completion |-> Reverse([k \in 1..Len(answers) |-> k]),
                           summary |-> <<>>]
                IN  \E summary \in
                          (IF summarising(
                                  llm, config,
                                  get_relevant_extracts(
                                      llm, vecdb, config, chunked_docs,
                                      chunked_docs_clean, dialog, query, o2))
                           THEN Summaries ELSE {<<>>}) :
                        Answered(query, [o2 EXCEPT !.summary = summary],
                                 answer_from_docs(
                                     llm, vecdb, config, chunked_docs,
                                     chunked_docs_clean, dialog, response,
                                     query, [o2 EXCEPT !.summary = summary]))
    /\ UNCHANGED <<vecdb, llm, parser, original_docs, original_docs_length,
                   chunked_docs, chunked_docs_clean>>

NextAnswer == AnswerFromDocs

SpecAnswer == InitAnswer /\ [][NextAnswer]_vars

\* some entry of the log is a call of the language model
SomeLLMCall == \E k \in 1..Len(calls) : calls[k].fn \in LLMCalls

\* C2 as stated: whenever retrieval yields zero passages or no extract
\* survives, answer_from_docs returns the NO_ANSWER sentinel and no call
\* of the language model is made at any point of the invocation.
NoAnswerWithoutLLMCall ==
    (op = "answer_from_docs" /\ ret.raised = "" /\ ret.extracts = <<>>) =>
        /\ ret.value.content = NO_ANSWER
        /\ ~SomeLLMCall

\* C2: whenever retrieval yields zero passages or no extract survives,
\* answer_from_docs returns the NO_ANSWER sentinel (source "None") and
\* get_summary_answer, the call of the language model that answers, is
\* not made; the calls that rewrite and expand the query and that extract
\* from the passages may have been made.
NoAnswerWithoutSummary ==
    (op = "answer_from_docs" /\ ret.raised = "" /\ ret.extracts = <<>>) =>
        /\ ret.value = no_answer_response
        /\ \A k \in 1..Len(calls) :
              calls[k].fn \notin {"get_summary_answer", "update_dialog",
                                  "_llm_response_temp_context"}
        /\ \A k \in 1..Len(calls) :
              calls[k].fn = "llm_response_forget" =>
                  /\ k > 1
                  /\ calls[k - 1].fn \in {"llm_hypothetical_answer",
                                          "llm_rephrase_query"}

\* passages were found and none of their extracts survived, after the
\* query had been rewritten and expanded
NoAnswerWitness ==
    /\ op = "answer_from_docs"
    /\ ret.raised = ""
    /\ ret.extracts = <<>>
    /\ Len(dialog) = 1
    /\ \E k \in 1..Len(calls) : calls[k].fn = "llm.followup_to_standalone"
    /\ \E k \in 1..Len(calls) : calls[k].fn = "llm_hypothetical_answer"
    /\ \E k \in 1..Len(calls) : calls[k].fn = "run_batch_tasks"

\* C11: every re-setup of the chunk corpus (an ingestion, a filter set)
\* replaces chunked_docs wholesale: after it the corpus holds exactly the
\* chunks of that setup (the documents handed in when there is no filter,
\* else what the vector store holds under the filter) and nothing carried
\* over from the list before.
CorpusReplacedWholesale ==
    /\ (op = "setup_documents" /\ ret.raised = "") =>
          chunked_docs =
              IF args.filter = "None" /\ Len(args.docs) > 0
              THEN args.docs
              ELSE vecdb_get_all_documents(
                       vecdb, IF args.filter = "None" THEN "" ELSE args.filter)
    /\ (op = "set_filter" /\ ret.raised = "") =>
          chunked_docs = vecdb_get_all_documents(vecdb, args.filter)
    /\ (op = "ingest_docs" /\ ret.raised = "") =>
          IF config.filter = "None" /\ ret.value > 0
          THEN Len(chunked_docs) = ret.value
          ELSE chunked_docs =
                  vecdb_get_all_documents(
                      vecdb, IF config.filter = "None" THEN "" ELSE config.filter)

\* the result collected for the passage at position k
ResultAt(k) ==
    IF args.answers[k].failed \/ args.answers[k].isNone THEN NO_ANSWER
    ELSE args.answers[k].content

\* C12: whatever the order in which the concurrent extraction calls end,
\* get_verbatim_extracts pairs the i-th result with the i-th passage, drops
\* exactly the passages whose result is the NO_ANSWER sentinel or empty, and
\* returns the others in the passages' order.
ExtractsByPosition ==
    (op = "get_verbatim_extracts"
        /\ ~config.relevance_extractor_config.isNone) =>
        LET kept == SelectSeq([k \in 1..Len(args.passages) |-> k],
                              LAMBDA k : ResultAt(k) \notin {NO_ANSWER, <<>>})
        IN  ret.value = [j \in 1..Len(kept) |->
                            [args.passages[kept[j]]
                                EXCEPT !.content = ResultAt(kept[j])]]

\* the second passage's task ended first; the first passage was dropped
\* and the second kept, with the span found in it
ExtractsByPositionWitness ==
    /\ op = "get_verbatim_extracts"
    /\ ~config.relevance_extractor_config.isNone
    /\ Len(args.passages) = 2
    /\ args.completion = <<2, 1>>
    /\ ResultAt(1) = <<>>
    /\ ResultAt(2) = <<"a">>
    /\ DocId(args.passages[1]) # DocId(args.passages[2])
    /\ Len(ret.value) = 1
    /\ DocId(ret.value[1]) = DocId(args.passages[2])

\* the passages whose extraction gave a span
Extracted ==
    {k \in 1..Len(args.answers) :
        /\ ~args.answers[k].failed
        /\ ~args.answers[k].isNone
        /\ args.answers[k].content \notin {NO_ANSWER, <<>>}}

Merged ==
    merged_passages(vecdb, config, chunked_docs, chunked_docs_clean,
                    args.query, args.query_proxies, args.env.rankings).value

\* the names under which the stages that follow the merge are logged
StageCalls ==
    <<"add_context_window", "rerank_with_cross_encoder",
      "rerank_with_diversity", "rerank_to_periphery">>

\* the stages invoked in the last call, in the order of their invocation
StagesRun ==
    LET staged == SelectSeq(calls, LAMBDA c : \E i \in 1..Len(StageCalls) :
                                                 c.fn = StageCalls[i])
    IN  [k \in 1..Len(staged) |-> staged[k].fn]

\* C14: if the merged, deduplicated passage list is empty,
\* get_relevant_chunks returns an empty list at once: none of context-window
\* expansion, cross-encoder, diversity and periphery reranking is invoked.
EmptyShortCircuit ==
    (op = "get_relevant_chunks" /\ ~vecdb.isNone /\ Merged = <<>>) =>
        /\ ret = Ok(<<>>)
        /\ StagesRun = <<>>

\* nothing was found though every search and every stage was enabled
EmptyShortCircuitWitness ==
    /\ op = "get_relevant_chunks"
    /\ ~vecdb.isNone
    /\ Merged = <<>>
    /\ config.use_bm25_search
    /\ config.use_fuzzy_match
    /\ config.n_neighbor_chunks = 1
    /\ config.cross_encoder_reranking_model # ""
    /\ config.rerank_diversity
    /\ config.rerank_periphery
    /\ Len(args.query_proxies) = 1
    /\ ret.value = <<>>

\* C15: an operation that needs a dependency that is not configured raises
\* at that call; none gives a default result (such as its input unchanged)
\* in its place.  Here: rerank_with_diversity, which needs the vector
\* store's embedding function.
MissingDependencyRaises ==
    (op = "rerank_with_diversity" /\ vecdb.isNone) => ret.raised # ""

\* the queries the calls logged under fn were made with, in order
QueriesOf(fn) ==
    LET made == SelectSeq(calls, LAMBDA c : c.fn = fn)
    IN  [k \in 1..Len(made) |-> made[k].q]

\* C16: the query proxies are used as further semantic-search queries
\* only: in one get_relevant_chunks call the BM25 search and the fuzzy
\* search are each invoked at most once, with the original query, never
\* with a proxy, while the semantic search is asked the query and every
\* proxy.
ProxiesOnlySemantic ==
    (op = "get_relevant_chunks" /\ ~vecdb.isNone) =>
        /\ QueriesOf("vecdb.similar_texts_with_scores")
              = <<args.query>> \o args.query_proxies
        /\ QueriesOf("get_similar_chunks_bm25")
              = IF config.use_bm25_search THEN <<args.query>> ELSE <<>>
        /\ QueriesOf("get_fuzzy_matches")
              = IF config.use_fuzzy_match THEN <<args.query>> ELSE <<>>
        /\ \A q \in {args.query_proxies[k] : k \in 1..Len(args.query_proxies)} :
              \A k \in 1..Len(calls) :
                  calls[k].q = q =>
                      calls[k].fn = "vecdb.similar_texts_with_scores"

\* a call with a proxy and both lexical searches enabled, over a corpus
\* where the matchers are reached
ProxiesOnlySemanticWitness ==
    /\ op = "get_relevant_chunks"
    /\ ~vecdb.isNone
    /\ Len(args.query_proxies) = 1
    /\ args.query_proxies[1] # args.query
    /\ config.use_bm25_search
    /\ config.use_fuzzy_match
    /\ QueriesOf("find_closest_matches_with_bm25") = <<args.query>>
    /\ QueriesOf("find_fuzzy_matches_in_docs") = <<args.query>>
    /\ Len(QueriesOf("vecdb.similar_texts_with_scores")) = 2

\* C17: if the LLM's response begins with the literal token SOURCE,
\* get_summary_answer uses the entire response, unchanged, as both the
\* content and the source of the answer it returns.
SourceFirstAsIs ==
    (op = "get_summary_answer" /\ StartsWith(args.answer, SOURCE)) =>
        /\ ret.value.content = args.answer
        /\ ret.value.source = args.answer

\* C18: if n_neighbor_chunks == 0 or the input list is empty,
\* add_context_window is the identity: the list it returns equals its
\* input (same documents, same scores, same order), and the vector store
\* is not called.
WindowIdentity ==
    (op = "add_context_window"
        /\ (config.n_neighbor_chunks = 0 \/ args.docs_scores = <<>>)) =>
        /\ ret = Ok(args.docs_scores)
        /\ calls = <<>>

\* two scored chunks of a configured vector store, no neighbours wanted
WindowIdentityWitness ==
    /\ op = "add_context_window"
    /\ ~vecdb.isNone
    /\ config.n_neighbor_chunks = 0
    /\ Len(args.docs_scores) = 2
    /\ args.docs_scores[1] # args.docs_scores[2]
    /\ ret.value = args.docs_scores

\* the stages the configuration enables, in the order of the code;
\* add_context_window is entered whatever the configuration
StagesEnabled ==
    <<"add_context_window">>
        \o (IF config.cross_encoder_reranking_model # ""
            THEN <<"rerank_with_cross_encoder">> ELSE <<>>)
        \o (IF config.rerank_diversity
            THEN <<"rerank_with_diversity">> ELSE <<>>)
        \o (IF config.rerank_periphery
            THEN <<"rerank_to_periphery">> ELSE <<>>)

\* the passages that enter the reranking stages: the merged passages after
\* the context-window expansion
Windowed ==
    LET merged == Merged
    IN  Docs(add_context_window(
                 vecdb, config,
                 [k \in 1..Len(merged) |-> <<merged[k], 0>>]).value)

\* C19: in get_relevant_chunks with a non-empty passage list the enabled
\* stages run in a fixed order, each once: context window, cross-encoder
\* (which cuts the list to n_similar_docs), diversity, periphery; the
\* rerankers change order and membership only: every passage returned is
\* one that entered them, its content included, and without a
\* cross-encoder all of them are returned.
StagesInOrder ==
    (op = "get_relevant_chunks" /\ ~vecdb.isNone /\ Merged # <<>>) =>
        /\ ret.raised = "" =>
              LET windowed == Windowed
              IN  /\ StagesRun = StagesEnabled
                  /\ \A j \in 1..Len(ret.value) :
                        \E k \in 1..Len(windowed) : ret.value[j] = windowed[k]
                  /\ Len(ret.value) =
                        IF config.cross_encoder_reranking_model # ""
                        THEN Min(config.n_similar_docs, Len(windowed))
                        ELSE Len(windowed)
        /\ ret.raised # "" =>
              /\ ret.raised = "ImportError"
              /\ StagesRun = SubSeq(StagesEnabled, 1, 2)

\* all four stages ran, over more passages than n_similar_docs, and the
\* passages returned carry their context windows
StagesInOrderWitness ==
    /\ op = "get_relevant_chunks"
    /\ ret.raised = ""
    /\ StagesRun = StageCalls
    /\ config.n_neighbor_chunks = 1
    /\ Len(Windowed) = 3
    /\ Len(ret.value) = 2
    /\ Windowed # Merged
    /\ ret.value # SubSeq(Windowed, 1, 2)

----------------------------------------------------------------------------
(* rerank_with_cross_encoder *)

MaxCross == 3

CrossItems == {Doc("1", <<"a">>, "s1"), Doc("2", <<"b">>, "s2")}

Logits == {-1, 0, 1}

InitCross ==
    /\ \E n \in 1..2 :
          InitAgentWith(VecDB(FALSE), LLM(FALSE), Parser(FALSE),
                        [DefaultConfig EXCEPT
                            !.n_similar_docs = n,
                            !.cross_encoder_reranking_model =
                                "cross-encoder/ms-marco-MiniLM-L-6-v2"])
    /\ NoCall
    /\ args \in UNION {[query : {<<"q">>},
                        passages : [1..n -> CrossItems],
                        logits : [1..n -> Logits],
                        available : BOOLEAN] : n \in 0..MaxCross}

CallRerankWithCrossEncoder ==
    /\ op = ""
    /\ op' = "rerank_with_cross_encoder"
    /\ ret' = rerank_with_cross_encoder(config, args.query, args.passages,
                                        args.logits, args.available)
    /\ calls' = <<>>
    /\ UNCHANGED <<agent, args>>

NextCross == CallRerankWithCrossEncoder

SpecCross == InitCross /\ [][NextCross]_vars

\* the score of the passage at position k of the input
ScoreAt(k) == Sigmoid(args.logits[k])

\* position i of the input ranks at or above position j: its score is
\* higher, or equal with i the earlier
RanksAbove(i, j) ==
    ScoreAt(i) > ScoreAt(j) \/ (ScoreAt(i) = ScoreAt(j) /\ i < j)

\* C20: rerank_with_cross_encoder returns at most n_similar_docs passages,
\* all from its input, in non-increasing order of score, passages of equal
\* score in their original order; a passage is cut only if n_similar_docs
\* passages rank at or above it.
CrossEncoderTopK ==
    (op = "rerank_with_cross_encoder" /\ ret.raised = "") =>
        \E pos \in [1..Len(ret.value) -> 1..Len(args.passages)] :
            /\ Len(ret.value) = Min(config.n_similar_docs, Len(args.passages))
            /\ \A r \in 1..Len(ret.value) : ret.value[r] = args.passages[pos[r]]
            /\ \A r, t \in 1..Len(ret.value) :
                  r < t => RanksAbove(pos[r], pos[t])
            /\ \A k \in 1..Len(args.passages) :
                  (\A r \in 1..Len(ret.value) : pos[r] # k) =>
                      \A r \in 1..Len(ret.value) : RanksAbove(pos[r], k)

\* three passages, the first and the last of equal score and the second
\* above them: the second and the first are returned, the last is cut
CrossEncoderWitness ==
    /\ op = "rerank_with_cross_encoder"
    /\ ret.raised = ""
    /\ config.n_similar_docs = 2
    /\ args.logits = <<0, 1, 0>>
    /\ args.passages[1] # args.passages[2]
    /\ args.passages[3] = args.passages[2]
    /\ ret.value = <<args.passages[2], args.passages[1]>>

\* the average cosine similarity of the passage at position i of the input
\* to the passages at the first t positions of the order pos
AvgToSelected(i, pos, t) ==
    avg_similarity_to_result(i, SubSeq(pos, 1, t), args.embs)

\* C21: in rerank_with_diversity every element after the first is, when it
\* is selected, a passage not yet selected with the lowest average cosine
\* similarity to the passages selected so far: no remaining passage has a
\* strictly lower one.  pos: the positions of the input in the order of
\* their selection.
DiversityGreedy ==
    (op = "rerank_with_diversity" /\ ~vecdb.isNone /\ ret.raised = "") =>
        \E pos \in Completions(Len(args.passages)) :
            /\ pos[1] = 1
            /\ ret.value = [t \in 1..Len(pos) |-> args.passages[pos[t]]]
            /\ \A t \in 2..Len(pos) :
                  \A u \in (t + 1)..Len(pos) :
                      ~RatLess(AvgToSelected(pos[u], pos, t - 1),
                               AvgToSelected(pos[t], pos, t - 1))

\* the last passage is the least similar to the first and is selected
\* second, ahead of the passage that came second
DiversityGreedyWitness ==
    /\ op = "rerank_with_diversity"
    /\ ~vecdb.isNone
    /\ args.embs = <<<<5, 0>>, <<3, 4>>, <<-5, 0>>>>
    /\ args.passages[2] # args.passages[3]
    /\ ret.value = <<args.passages[1], args.passages[3], args.passages[2]>>

----------------------------------------------------------------------------
(* llm_response: the turns of a conversation.  A query is a sequence of    *)
(* pieces of text.                                                          *)

\* ChatAgent.llm_can_respond
llm_can_respond(lm) == ~lm.isNone

\* lines 653-680: which branch of llm_response the query takes
dispatch(query_str, resp) ==
    IF StartsWith(query_str, <<"!">>) THEN "direct"
    ELSE IF query_str = <<>> THEN "none"
    ELSE IF query_str = <<"?">> /\ ~resp.isNone THEN "justify_response"
    ELSE IF ((StartsWith(query_str, <<"summar">>)
                \/ StartsWith(query_str, <<"?">>)) /\ resp.isNone)
            \/ query_str = <<"?", "?">>
    THEN "summarize_docs"
    ELSE "answer_from_docs"

\* what llm_response gives when it leaves the agent as it is
unchanged(cfg, dlg, resp, e, v, c) ==
    [raised |-> e, value |-> v, config |-> cfg, dialog |-> dlg,
     response |-> resp, calls |-> c]

\* lines 653-663; direct: the response of ChatAgent.llm_response
direct_response(lm, cfg, dlg, resp, query_str, direct) ==
    IF lm.isNone THEN unchanged(cfg, dlg, resp, "ValueError", NoResponse, <<>>)
    ELSE [raised |-> "", value |-> direct, config |-> cfg,
          dialog |-> update_dialog(dlg, Tail(query_str),
                                   IF direct.isNone THEN <<>>
                                   ELSE direct.content),
          response |-> resp,
          calls |-> <<Call("ChatAgent.llm_response", Tail(query_str), 0),
                      C("update_dialog")>>]

\* lines 1285-1327; summary: the response of ChatAgent.llm_response
summarize_docs(lm, pr, cfg, originals, dlg, resp, summary) ==
    IF lm.isNone
    THEN unchanged(cfg, dlg, resp, "ValueError", NoResponse,
                   <<C("summarize_docs")>>)
    ELSE IF Len(originals) = 0
    THEN unchanged(cfg, dlg, resp, "", NoResponse,
                   <<C("summarize_docs"), C("logger.warning")>>)
    ELSE IF pr.isNone
    THEN unchanged(cfg, dlg, resp, "ValueError", NoResponse,
                   <<C("summarize_docs")>>)
    ELSE unchanged(cfg, dlg, resp, "", summary,
                   <<C("summarize_docs"), C("ChatAgent.llm_response")>>)

\* lines 1329-1339: the source of the last response is shown
justify_response(cfg, dlg, resp) ==
    unchanged(cfg, dlg, resp, "", NoResponse,
              <<C("justify_response")>>
                  \o (IF resp.isNone THEN <<>>
                      ELSE <<Call("print", resp.source, 0)>>))

\* lines 673-682; r: what answer_from_docs gave
answered(r) ==
    [raised |-> r.raised,
     value |-> IF r.raised # "" THEN NoResponse
               ELSE [isNone |-> FALSE, content |-> r.value.content,
                     source |-> r.value.source],
     config |-> r.config, dialog |-> r.dialog, response |-> r.response,
     calls |-> <<C("answer_from_docs")>> \o r.calls]

\* o: the answers of the collaborators during the call
llm_response(lm, db, pr, cfg, originals, chunked, clean, dlg, resp, query, o) ==
    IF ~llm_can_respond(lm)
    THEN unchanged(cfg, dlg, resp, "", NoResponse, <<>>)
    ELSE CASE dispatch(query, resp) = "direct" ->
                direct_response(lm, cfg, dlg, resp, query, o.direct)
           [] dispatch(query, resp) = "none" ->
                unchanged(cfg, dlg, resp, "", NoResponse, <<>>)
           [] dispatch(query, resp) = "justify_response" ->
                justify_response(cfg, dlg, resp)
           [] dispatch(query, resp) = "summarize_docs" ->
                summarize_docs(lm, pr, cfg, originals, dlg, resp, o.direct)
           [] OTHER ->
                answered(answer_from_docs(lm, db, cfg, chunked, clean, dlg,
                                          resp, query, o))

\* every search switched on, the extraction of verbatim extracts off
ChatConfigs ==
    {[cfg EXCEPT !.use_bm25_search = TRUE, !.use_fuzzy_match = TRUE] :
        cfg \in {c \in AnswerConfigs : c.relevance_extractor_config.isNone}}

ChatQueries ==
    {<<"One", "three">>, <<"?">>, <<"?", "?">>, <<>>, <<"!", "hi">>,
     <<"summar", "ize">>}

\* what ChatAgent.llm_response gives: None or a response
DirectResponses ==
    {NoResponse, [isNone |-> FALSE, content |-> <<"hi">>, source |-> <<>>]}

\* what the model makes of the extracts: an answer, or that it has none
ChatSummaries == {ExampleResponse, NO_ANSWER}

NoEnv == [rankings |-> <<>>, available |-> TRUE, logits |-> <<>>, embs |-> <<>>]

InitChat ==
    /\ \E cfg \in ChatConfigs, corpus \in {<<>>, StoredChunks} :
          /\ vecdb = [VecDB(FALSE) EXCEPT !.docs = corpus]
          /\ llm = LLM(FALSE)
          /\ parser = Parser(FALSE)
          /\ config = cfg
          /\ original_docs = IF corpus = <<>> THEN <<>> ELSE <<W1>>
          /\ original_docs_length = 0
          /\ chunked_docs = corpus
          /\ chunked_docs_clean = clean_docs(corpus)
          /\ dialog = <<>>
          /\ response = NoResponse
    /\ NoCall
    /\ args = <<>>

\* the agent and the log after the call; r: what llm_response gave
Responded(query_str, o, r) ==
    /\ op' = "llm_response"
    /\ args' = [query |-> query_str, o |-> o]
    /\ ret' = [raised |-> r.raised, value |-> r.value]
    /\ calls' = r.calls
    /\ config' = r.config
    /\ dialog' = r.dialog
    /\ response' = r.response

\* the collaborators' answers a call with this query may get
ChatOracles(query_str) ==
    IF dispatch(query_str, response) # "answer_from_docs"
    THEN [standalone : Standalones, hypothetical : Hypotheticals,
          rephrases : {<<>>}, env : {NoEnv}, answers : {<<>>},
          completion : {<<>>}, summary : {<<>>},
          direct : IF dispatch(query_str, response) = "direct"
                      \/ (dispatch(query_str, response) = "summarize_docs"
                            /\ Len(original_docs) > 0)
                   THEN DirectResponses ELSE {NoResponse}]
    ELSE UNION {
        [standalone : {o1.standalone}, hypothetical : {o1.hypothetical},
         rephrases : {o1.rephrases},
         env : {e \in Envs(vecdb, config, chunked_docs, chunked_docs_clean,
                           standalone_query(dialog, config, query_str, o1),
                           query_proxies(config, o1)) :
                   \A i \in 1..Len(e.rankings) : e.rankings[i] = "forward"},
         answers : {<<>>}, completion : {<<>>},
         summary : IF Len(vecdb.docs) > 0 /\ ~config.retrieve_only
                   THEN ChatSummaries ELSE {<<>>},
         direct : {NoResponse}]
        : o1 \in [standalone : Standalones, hypothetical : Hypotheticals,
                  rephrases : IF config.n_query_rephrases > 0
                              THEN {<<"dos", SEP, "tres">>} ELSE {<<>>}]}

LlmResponse ==
    /\ Len(dialog) <= MaxDialog
    /\ \E query_str \in ChatQueries :
          \E o \in ChatOracles(query_str) :
              \E r \in {llm_response(llm, vecdb, parser, config,
                                      original_docs, chunked_docs,
                                      chunked_docs_clean, dialog, response,
                                      query_str, o)} :
                  Responded(query_str, o, r)
    /\ UNCHANGED <<vecdb, llm, parser, original_docs, original_docs_length,
                   chunked_docs, chunked_docs_clean>>

\* questions, and the collection cleared between them
NextChat ==
    \/ LlmResponse
    \/ Clear

SpecChat == InitChat /\ [][NextChat]_vars

\* where in a log the calls of the functions fns are
Positions(log, fns) == {k \in 1..Len(log) : log[k].fn \in fns}

SearchCalls ==
    {"vecdb.similar_texts_with_scores", "get_similar_chunks_bm25",
     "get_fuzzy_matches"}

ProxyCalls ==
    {"llm_hypothetical_answer", "llm_rephrase_query", "llm_response_forget"}

\* the elements of a sequence
Range(s) == {s[k] : k \in 1..Len(s)}

\* C22: get_relevant_extracts has the LLM rewrite the query to stand-alone
\* form if and only if the dialog is not empty and assistant_mode is off; the
\* rewrite comes before every generation of a proxy and before every
\* semantic, BM25 and fuzzy search, and all of them are given the rewritten
\* query; the query to an agent with no dialog is not rewritten, and the
\* query after a synthesized answer is, when assistant_mode is off
StandaloneRewrite ==
    [][(op' = "llm_response" /\ Positions(calls', {"answer_from_docs"}) # {}) =>
          LET log == calls'
              standalone == args'.o.standalone
              rewrites == Positions(log, {"llm.followup_to_standalone"})
              chunks == Positions(log, {"get_relevant_chunks"})
              proxies == {k \in Positions(log, ProxyCalls) :
                             \A c \in chunks : k < c}
              searches == Positions(log, SearchCalls)
              used == IF rewrites = {} THEN args'.query ELSE standalone
          IN  /\ (rewrites # {}) <=> (Len(dialog) > 0 /\ ~config.assistant_mode)
              /\ Cardinality(rewrites) <= 1
              /\ \A r \in rewrites :
                    /\ log[r].q = args'.query
                    /\ \A k \in proxies \cup chunks \cup searches : r < k
              /\ \A k \in proxies :
                    log[k].fn = "llm_response_forget" => log[k].q = used
              /\ \A k \in chunks : log[k].q = used
              /\ \A k \in searches :
                    \/ log[k].q = used
                    \/ /\ log[k].fn = "vecdb.similar_texts_with_scores"
                       /\ log[k].q \in Range(query_proxies(config, args'.o))
              /\ \E k \in searches :
                    log[k].fn = "vecdb.similar_texts_with_scores"
                        /\ log[k].q = used
              /\ dialog = <<>> => rewrites = {}
              /\ (Positions(calls, {"get_summary_answer"}) # {}
                    /\ ~config.assistant_mode) => rewrites # {}
      ]_vars

\* a query after a synthesized answer, rewritten before a hypothetical
\* answer is made and before the three searches, which all get the rewrite
StandaloneRewriteWitness ==
    /\ op = "llm_response"
    /\ Len(dialog) = 2
    /\ args.query = <<"One", "three">>
    /\ \E r \in Positions(calls, {"llm.followup_to_standalone"}) :
          /\ calls[r].q = args.query
          /\ \E h \in Positions(calls, {"llm_hypothetical_answer"}) : r < h
          /\ \A fn \in SearchCalls :
                \E k \in Positions(calls, {fn}) :
                    r < k /\ calls[k].q = args.o.standalone
    /\ args.o.standalone # args.query
    /\ ~ret.value.isNone
    /\ ret.value.content = ExampleContent

\* the calls of fn in the log, in order
CallsOf(fn) == SelectSeq(calls, LAMBDA c : c.fn = fn)

\* C23: get_relevant_chunks runs the semantic search once for the query and
\* once for each proxy, each time asking for n_similar_docs * m hits, and the
\* BM25 search asks for the same n_similar_docs * m, where m is 3 when a
\* cross-encoder reranking model is configured and 1 otherwise
RetrievalMultiple ==
    (op = "get_relevant_chunks" /\ ~vecdb.isNone) =>
        LET m == IF config.cross_encoder_reranking_model # "" THEN 3 ELSE 1
            asked == <<args.query>> \o args.query_proxies
            semantic == CallsOf("vecdb.similar_texts_with_scores")
            bm25 == CallsOf("get_similar_chunks_bm25")
            closest == CallsOf("find_closest_matches_with_bm25")
        IN  /\ Len(semantic) = Len(asked)
            /\ \A i \in 1..Len(semantic) :
                  /\ semantic[i].q = asked[i]
                  /\ semantic[i].k = config.n_similar_docs * m
            /\ Len(bm25) = IF config.use_bm25_search THEN 1 ELSE 0
            /\ \A i \in 1..Len(bm25) : bm25[i].k = m
            /\ Len(closest) = IF config.use_bm25_search /\ Len(chunked_docs) > 0
                              THEN 1 ELSE 0
            /\ \A i \in 1..Len(closest) :
                  closest[i].k = config.n_similar_docs * m

\* a cross-encoder configured: the query, its proxy and the BM25 search each
\* ask for three times n_similar_docs, and the store gives more than
\* n_similar_docs hits
RetrievalMultipleWitness ==
    /\ op = "get_relevant_chunks"
    /\ ~vecdb.isNone
    /\ config.cross_encoder_reranking_model # ""
    /\ args.query_proxies # <<>>
    /\ Len(CallsOf("vecdb.similar_texts_with_scores")) = 2
    /\ \A i \in 1..2 :
          CallsOf("vecdb.similar_texts_with_scores")[i].k
              = 3 * config.n_similar_docs
    /\ Len(CallsOf("find_closest_matches_with_bm25")) = 1
    /\ CallsOf("find_closest_matches_with_bm25")[1].k = 3 * config.n_similar_docs
    /\ Len(Merged) > config.n_similar_docs

\* ingest_docs called again and again, and nothing else
NextIngest == IngestDocs

SpecIngest == InitCorpus /\ [][NextIngest]_vars

\* C24: after any sequence of ingest_docs calls, the same documents ingested
\* more than once included, every chunk of chunked_docs has an id that is
\* not empty and no two entries of chunked_docs have the same id
ChunkIdsUnique ==
    /\ \A i \in 1..Len(chunked_docs) : DocId(chunked_docs[i]) # ""
    /\ \A i, j \in 1..Len(chunked_docs) :
          DocId(chunked_docs[i]) = DocId(chunked_docs[j]) => i = j

\* C25: get_relevant_chunks, with the searches, the merge and the reranking
\* stages it runs, leaves chunked_docs and chunked_docs_clean as they were
ChunksKeepCorpus ==
    [][op' = "get_relevant_chunks" =>
          /\ chunked_docs' = chunked_docs
          /\ chunked_docs_clean' = chunked_docs_clean]_vars

\* a call whose BM25 and fuzzy searches found chunks of the corpus, which
\* were added to the passages of the semantic search
ChunksKeepCorpusWitness ==
    /\ op = "get_relevant_chunks"
    /\ ret.raised = ""
    /\ Len(chunked_docs) = 3
    /\ Len(chunked_docs_clean) = 3
    /\ config.use_bm25_search
    /\ config.use_fuzzy_match
    /\ Len(CallsOf("find_closest_matches_with_bm25")) = 1
    /\ Len(CallsOf("find_fuzzy_matches_in_docs")) = 1
    /\ args.query_proxies = <<>>
    /\ config.cross_encoder_reranking_model = ""
    /\ Len(ret.value) > config.n_similar_docs

\* C26: streaming is off only while the verbatim extraction runs: when
\* get_verbatim_extracts returns, config.llm.stream has the value it had
\* before the call, whatever relevance_extractor_config is, one with no llm
\* of its own included
StreamingRestored ==
    [][op' = "get_verbatim_extracts" =>
          config'.llm.stream = config.llm.stream]_vars

\* whether the log has a call of fn
Called(log, fn) == Positions(log, {fn}) # {}

\* the turn the dialog gets for a synthesized answer
SynthesizedTurn(log, out) ==
    <<IF Called(log, "llm.followup_to_standalone")
      THEN out.o.standalone ELSE out.query,
      get_summary_answer(config, out.o.summary).content>>

\* C27: answer_from_docs adds a (query, answer) turn to the dialog and
\* replaces the saved last response exactly when it returns an answer the
\* LLM synthesized; when it returns the NO_ANSWER sentinel or a
\* retrieve_only result the dialog and the saved response stay as they
\* were; so "?" is answered by justify_response only when an earlier answer
\* was synthesized and saved
SynthesizedAnswerSaved ==
    [][(op' = "llm_response" /\ Called(calls', "answer_from_docs")) =>
          /\ Called(calls', "get_summary_answer") <=>
                (~config.retrieve_only /\ ret'.value # no_answer_response)
          /\ Called(calls', "get_summary_answer") =>
                /\ dialog' = Append(dialog, SynthesizedTurn(calls', args'))
                /\ response' = ret'.value
                /\ response'.content
                      = get_summary_answer(config, args'.o.summary).content
          /\ ~Called(calls', "get_summary_answer") =>
                /\ dialog' = dialog
                /\ response' = response
          /\ (ret'.value = no_answer_response \/ config.retrieve_only) =>
                (dialog' = dialog /\ response' = response)
      ]_vars
    /\ [][(op' = "llm_response" /\ Called(calls', "justify_response")) =>
             /\ args'.query = <<"?">>
             /\ ~response.isNone
             /\ \E k \in 1..Len(dialog) : dialog[k][2] = response.content
             /\ StartsWith(response.source, SOURCE_PREFIX)
             /\ calls'[Len(calls')] = Call("print", response.source, 0)
         ]_vars
    /\ [][response' # response => Called(calls', "get_summary_answer")]_vars

\* a question that gets the NO_ANSWER sentinel, the collection having been
\* cleared after a question that got a synthesized answer: the turn and the
\* response of the synthesized answer are still there
SynthesizedAnswerSavedWitness ==
    /\ op = "llm_response"
    /\ args.query = <<"One", "three">>
    /\ ret.value = no_answer_response
    /\ vecdb.docs = <<>>
    /\ Len(dialog) = 1
    /\ dialog[1][2] = ExampleContent
    /\ response.content = ExampleContent
    /\ response.source = SOURCE_PREFIX \o ExampleSource

====
